---- MODULE Spec2Model ----
(***************************************************************************)
(* Review-and-propagation engine of scripts/review_app.py: the knowledge   *)
(* base, the FAQ clusters, the flat QA export, the per-call source records *)
(* and the correction log, with the operations confirm_entry,              *)
(* update_records (correct) and undo_last_correction, and the helpers they *)
(* call.  Texts are sequences of one-character strings, so that strip(),   *)
(* lower(), the substring test and replace() are computed, not assumed.    *)
(***************************************************************************)
EXTENDS Integers, Sequences, FiniteSets, TLC

VARIABLES
    kbFile,        \* knowledge_base/kb_faq_ru.json: sequence of KB entries
    clusterFile,   \* insights_global/global_faq_clusters_dedup.json
    nluFile,       \* nlu_output/nlu_pairs.jsonl: sequence of QA rows
    corrLog,       \* corrections/corrections.jsonl: sequence of lines
    insights,      \* insights_per_call/<call_id>.json, or Missing
    kb_entries,    \* main(): the collections as loaded and mutated in memory
    cluster_map,
    nlu_rows,
    OPENAI_READY,  \* bool(os.getenv("OPENAI_API_KEY"))
    now,           \* datetime.now() at minute resolution
    ops,           \* number of operations run so far
    pc,            \* the file a save function is writing, or "idle"
    last           \* the most recent call: its name, arguments and result

vars == <<kbFile, clusterFile, nluFile, corrLog, insights, kb_entries,
          cluster_map, nlu_rows, OPENAI_READY, now, ops, pc, last>>

store == <<kbFile, clusterFile, nluFile, corrLog, insights, kb_entries,
           cluster_map, nlu_rows>>

(***************************************************************************)
(* Program constants and the bounds of the model.                          *)
(***************************************************************************)
MAX_REWRITES == 20
DETECTION_BATCH_SIZE == 8

MaxOps == 2        \* operations per behaviour of the store specifications
MaxClock == 1      \* minutes the clock may advance
MaxTextLen == 3    \* length of the texts drawn for the pure functions
ExtraRows == 2     \* candidate rows beyond MAX_REWRITES in the budget store
ExtraBatchRows == 1 \* rows beyond one detection batch in the detection inputs
MaxLogLen == 3     \* lines of the damaged logs drawn for reading
NumSessions == 2   \* sessions of the application open at the same time
NumHandlers == 2   \* HTTP handler threads of the demo server
MaxRuns == 3       \* runs requested from the demo server

(***************************************************************************)
(* Texts.                                                                  *)
(***************************************************************************)
Min(S) == CHOOSE x \in S : \A y \in S : x <= y
Max(S) == CHOOSE x \in S : \A y \in S : x >= y

RECURSIVE LStrip(_)
LStrip(s) ==
    IF s = <<>> THEN s
    ELSE IF Head(s) = " " THEN LStrip(Tail(s)) ELSE s

RECURSIVE RStrip(_)
RStrip(s) ==
    IF s = <<>> THEN s
    ELSE IF s[Len(s)] = " " THEN RStrip(SubSeq(s, 1, Len(s) - 1)) ELSE s

\* str.strip()
Strip(s) == RStrip(LStrip(s))

LowerChar(c) ==
    CASE c = "R" -> "r"
      [] c = "T" -> "t"
      [] c = "O" -> "o"
      [] OTHER -> c

\* str.lower()
Lower(s) == [i \in 1..Len(s) |-> LowerChar(s[i])]

\* sub occurs in s at the 0-based offset i
OccursAt(s, sub, i) ==
    /\ i >= 0
    /\ i + Len(sub) <= Len(s)
    /\ SubSeq(s, i + 1, i + Len(sub)) = sub

Offsets(s, sub) == {i \in 0..Len(s) : OccursAt(s, sub, i)}

\* str.find(sub): the lowest offset, or -1
Find(s, sub) == IF Offsets(s, sub) = {} THEN -1 ELSE Min(Offsets(s, sub))

\* str.rfind(sub): the highest offset, or -1
RFind(s, sub) == IF Offsets(s, sub) = {} THEN -1 ELSE Max(Offsets(s, sub))

\* `sub in s`
Contains(s, sub) == Find(s, sub) # -1

\* A mutant of ReplaceFirst: the last occurrence is replaced.
ReplaceLast(s, old, new) ==
    IF RFind(s, old) = -1 THEN s
    ELSE SubSeq(s, 1, RFind(s, old)) \o new
         \o SubSeq(s, RFind(s, old) + Len(old) + 1, Len(s))

\* s.replace(old, new, 1)
ReplaceFirst(s, old, new) ==
    IF Find(s, old) = -1 THEN s
    ELSE SubSeq(s, 1, Find(s, old)) \o new
         \o SubSeq(s, Find(s, old) + Len(old) + 1, Len(s))

\* All texts over an alphabet, up to a length.
RECURSIVE TextsUpTo(_, _)
TextsUpTo(alphabet, n) ==
    IF n = 0 THEN {<<>>}
    ELSE LET shorter == TextsUpTo(alphabet, n - 1)
         IN  shorter \cup {<<c>> \o t : c \in alphabet,
                                        t \in {u \in shorter : Len(u) = n - 1}}

Range(s) == {s[i] : i \in 1..Len(s)}

(***************************************************************************)
(* The text-generation collaborator.  A response text is a sequence of     *)
(* tokens: whitespace "ws", prose "w" (words, a Markdown fence), the       *)
(* brackets "[" and "]", a number "num", and "obj", one complete JSON      *)
(* object {...} with the keys the prompts ask for.  A key that is absent   *)
(* is held as the default .get() gives it.                                 *)
(***************************************************************************)
NoId == -1     \* item.get("id") is None, or names no row

Tok(t) == [t |-> t, id |-> NoId, needs_edit |-> FALSE, reason |-> "",
           snippet |-> <<>>, replacement |-> <<>>]

\* {"id": .., "needs_edit": .., "reason": .., "snippet": ..}
DetItem(id, needs_edit, reason, snippet) ==
    [t |-> "obj", id |-> id, needs_edit |-> needs_edit, reason |-> reason,
     snippet |-> snippet, replacement |-> <<>>]

\* {"replacement": ..}
RewObj(replacement) ==
    [t |-> "obj", id |-> NoId, needs_edit |-> FALSE, reason |-> "",
     snippet |-> <<>>, replacement |-> replacement]

\* What call_openai gives: None, the message content, or an exception.
NoContent == [kind |-> "none", toks |-> <<>>]
Content(toks) == [kind |-> "text", toks |-> toks]
Raises == [kind |-> "raise", toks |-> <<>>]

\* get_openai_client: OpenAI() fails without credentials and None is returned
get_openai_client(ready) == IF ready THEN "client" ELSE "None"

\* call_openai: None without a client, else whatever the request yields
call_openai(ready, response) ==
    IF get_openai_client(ready) = "None" THEN NoContent ELSE response

\* The parsed value: kind is "list", "dict", "scalar", or "none" for None.
Parsed(kind, items) == [kind |-> kind, items |-> items]
NoParse == Parsed("none", <<>>)

\* str.strip() on a response text
RECURSIVE LStripToks(_)
LStripToks(toks) ==
    IF toks = <<>> THEN toks
    ELSE IF Head(toks).t = "ws" THEN LStripToks(Tail(toks)) ELSE toks

RECURSIVE RStripToks(_)
RStripToks(toks) ==
    IF toks = <<>> THEN toks
    ELSE IF toks[Len(toks)].t = "ws"
         THEN RStripToks(SubSeq(toks, 1, Len(toks) - 1)) ELSE toks

StripToks(toks) == RStripToks(LStripToks(toks))

\* json.loads: the whole text must be one JSON value (whitespace is allowed
\* between tokens); NoParse stands for JSONDecodeError.
json_loads(text) ==
    LET IsInk(tok) == tok.t # "ws"
        toks == SelectSeq(text, IsInk)
        n == Len(toks)
    IN  IF n = 1 /\ toks[1].t = "obj" THEN Parsed("dict", toks)
        ELSE IF n = 1 /\ toks[1].t = "num" THEN Parsed("scalar", toks)
        ELSE IF /\ n >= 2
                /\ toks[1].t = "["
                /\ toks[n].t = "]"
                /\ \A i \in 2..(n - 1) : toks[i].t \in {"obj", "num"}
             THEN Parsed("list", SubSeq(toks, 2, n - 1))
        ELSE NoParse

\* text.find / text.rfind of a bracket character: an object starts with "{"
\* and ends with "}"
FindTok(toks, ch) ==
    LET hits == {i \in 1..Len(toks) :
                    \/ toks[i].t = ch
                    \/ ch = "{" /\ toks[i].t = "obj"}
    IN  IF hits = {} THEN -1 ELSE Min(hits)

RFindTok(toks, ch) ==
    LET hits == {i \in 1..Len(toks) :
                    \/ toks[i].t = ch
                    \/ ch = "}" /\ toks[i].t = "obj"}
    IN  IF hits = {} THEN -1 ELSE Max(hits)

\* extract_json_structure
extract_json_structure(content) ==
    LET text == StripToks(IF content.kind = "text" THEN content.toks ELSE <<>>)
        whole == json_loads(text)
        aStart == FindTok(text, "[")
        aEnd == RFindTok(text, "]")
        array == IF aStart # -1 /\ aEnd # -1 /\ aEnd > aStart
                 THEN json_loads(SubSeq(text, aStart, aEnd)) ELSE NoParse
        oStart == FindTok(text, "{")
        oEnd == RFindTok(text, "}")
        \* one object token holds both braces, so end > start also when
        \* the first "{" and the last "}" belong to the same object
        object == IF oStart # -1 /\ oEnd # -1 /\ oEnd >= oStart
                  THEN json_loads(SubSeq(text, oStart, oEnd)) ELSE NoParse
    IN  IF text = <<>> THEN NoParse
        ELSE IF whole.kind # "none" THEN whole
        ELSE IF array.kind # "none" THEN array
        ELSE object

\* chunk_list(items, size)
chunk_list(items, size) ==
    [k \in 1..((Len(items) + size - 1) \div size) |->
        SubSeq(items, (k - 1) * size + 1, Min({k * size, Len(items)}))]

(***************************************************************************)
(* The correction log: one line per record.  A line is a JSON record, a    *)
(* line json.loads rejects ("bad"), or a blank line.                       *)
(***************************************************************************)
JsonLine(record) == [kind |-> "json", rec |-> record]
BadLine == [kind |-> "bad"]
BlankLine == [kind |-> "blank"]

NoRecord == [type |-> "None"]     \* Python's None where a record is expected

\* read_last_log_entry ends by an exception when a line of the file is no
\* UTF-8 text: deque(handle, maxlen=1) reads every line, and
\* UnicodeDecodeError is not among the exceptions it handles
Undecodable(log) == {i \in 1..Len(log) : log[i].kind = "bytes"}

\* read_last_log_entry, when it returns: the last line, parsed (a JSON value
\* that is no object equals no record); None for a missing or empty
\* file, a blank last line or a last line that does not parse
read_last_log_entry(log) ==
    IF log = <<>> THEN NoRecord
    ELSE IF log[Len(log)].kind = "json" THEN log[Len(log)].rec
    ELSE NoRecord

\* A mutant of append_correction_log: the file is opened for writing, not
\* for appending.
append_truncating(log, record) ==
    IF read_last_log_entry(log) = record THEN log ELSE <<JsonLine(record)>>

\* A mutant of append_correction_log: no comparison with the last record.
append_always(log, record) == Append(log, JsonLine(record))

\* append_correction_log
append_correction_log(log, record) ==
    IF read_last_log_entry(log) = record THEN log
    ELSE Append(log, JsonLine(record))

\* load_corrections_for ends by an exception on a line that is JSON but no
\* object ("value": record.get raises AttributeError) and on a line that
\* is no UTF-8 text ("bytes": reading the line raises UnicodeDecodeError)
Unreadable(log) == {i \in 1..Len(log) : log[i].kind \in {"value", "bytes"}}

\* load_corrections_for, when it returns: blank lines and lines json.loads
\* rejects are skipped
load_corrections_for(log, question) ==
    LET Keep(line) == /\ line.kind = "json"
                      /\ line.rec.canonical_question = question
        kept == SelectSeq(log, Keep)
    IN  [i \in 1..Len(kept) |-> kept[i].rec]

\* A mutant of find_last_correction: the earliest corrected record is taken.
find_first_correction(log, question) ==
    LET entries == load_corrections_for(log, question)
        hits == {i \in 1..Len(entries) : entries[i].type = "corrected"}
    IN  IF hits = {} THEN NoRecord ELSE entries[Min(hits)]

\* A mutant of find_last_correction: the latest record of the question is
\* taken, whatever its type.
find_last_entry(log, question) ==
    LET entries == load_corrections_for(log, question)
    IN  IF entries = <<>> THEN NoRecord ELSE entries[Len(entries)]

\* find_last_correction
find_last_correction(log, question) ==
    LET entries == load_corrections_for(log, question)
        hits == {i \in 1..Len(entries) : entries[i].type = "corrected"}
    IN  IF hits = {} THEN NoRecord ELSE entries[Max(hits)]

(***************************************************************************)
(* The record store.  Formatted strings are held by their parts.           *)
(***************************************************************************)
Note(fmt, at, who, text) == [fmt |-> fmt, at |-> at, who |-> who, text |-> text]
Plain(text) == Note("plain", 0, "", text)
NoStamp == -1      \* a KB entry that has no last_reviewed_at yet

\* load_kb / save_kb: the whole JSON list
load_kb(file) == file
save_kb(entries) == entries

\* load_clusters: {cluster["canonical_q"]: cluster}, a later cluster of the
\* same question replacing an earlier one at the earlier one's position
load_clusters(file) ==
    LET First(i) == \A j \in 1..(i - 1) :
                        file[j].canonical_q # file[i].canonical_q
        LastOf(i) == Max({j \in 1..Len(file) :
                            file[j].canonical_q = file[i].canonical_q})
        keys == {i \in 1..Len(file) : First(i)}
        Nth(k) == CHOOSE i \in keys : Cardinality({j \in keys : j <= i}) = k
    IN  [k \in 1..Cardinality(keys) |-> file[LastOf(Nth(k))]]

\* save_clusters: list(cluster_map.values())
save_clusters(map) == map

\* load_nlu_rows / save_nlu_rows: one JSON row per line
load_nlu_rows(file) == file
save_nlu_rows(rows) == rows

\* cluster_map.get(question): the position of the cluster, 0 for None
ClusterAt(map, question) ==
    LET hits == {i \in 1..Len(map) : map[i].canonical_q = question}
    IN  IF hits = {} THEN 0 ELSE Min(hits)

\* A mutant of SetClusterAnswer: the cluster keeps its answer.
SetClusterAnswerNowhere(map, at, answer) == map

\* cluster["best_answer"] = answer, for the cluster found (at # 0)
SetClusterAnswer(map, at, answer) ==
    IF at # 0 THEN [map EXCEPT ![at].best_answer = answer] ELSE map

(***************************************************************************)
(* find_candidate_rows: the positions (from 1) of the candidate rows.      *)
(***************************************************************************)
\* A mutant of RowIsCandidate: only the phrase test, call_id is not looked at.
RowIsCandidateByPhraseOnly(row, call_ids, near_phrases) ==
    \E phrase \in near_phrases :
        phrase # <<>> /\ Contains(Lower(row.question), phrase)

\* A mutant of RowIsCandidate: the row's question is not lower-cased.
RowIsCandidateCaseSensitive(row, call_ids, near_phrases) ==
    IF row.call_id \in call_ids THEN TRUE
    ELSE \E phrase \in near_phrases :
            phrase # <<>> /\ Contains(row.question, phrase)

RowIsCandidate(row, call_ids, near_phrases) ==
    IF row.call_id \in call_ids THEN TRUE
    ELSE \E phrase \in near_phrases :
            phrase # <<>> /\ Contains(Lower(row.question), phrase)

find_candidate_rows(canonical_question, map, rows) ==
    LET at == ClusterAt(map, canonical_question)
        cluster == map[at]
        call_ids == cluster.source_conversation_ids
        near_phrases == {Lower(canonical_question)} \cup
                        {Lower(phrase) : phrase \in
                            {p \in cluster.near_duplicates : p # <<>>}}
        Include(i) == RowIsCandidate(rows[i], call_ids, near_phrases)
        hits == {i \in 1..Len(rows) : Include(i)}
        Nth(k) == CHOOSE i \in hits : Cardinality({j \in hits : j <= i}) = k
    IN  IF at = 0 THEN <<>>
        ELSE [k \in 1..Cardinality(hits) |-> Nth(k)]

(***************************************************************************)
(* detect_inconsistencies, the effective (second) definition.  rows is the *)
(* sequence of {idx, question, answer}; responses[k] is what the           *)
(* collaborator answers to the request for batch k.                        *)
(***************************************************************************)
Decision(needs_edit, reason, snippet) ==
    [needs_edit |-> needs_edit, reason |-> reason, snippet |-> snippet]

DefaultDecision == Decision(FALSE, "no_change_needed", <<>>)
ParseErrorDecision == Decision(FALSE, "parse_error", <<>>)

\* not (`idx is None or idx not in results`): the item is taken
ItemApplies(item, results) ==
    item.id # NoId /\ item.id \in DOMAIN results

\* the loop over the items of one parsed response; item.get on an item
\* that is no object raises
RECURSIVE ApplyItems(_, _, _)
ApplyItems(results, items, chunk) ==
    IF items = <<>> THEN [raised |-> FALSE, results |-> results]
    ELSE LET item == Head(items)
         IN  IF item.t # "obj" THEN [raised |-> TRUE, results |-> results]
             ELSE IF ~ItemApplies(item, results)
                  THEN ApplyItems(results, Tail(items), chunk)
             ELSE ApplyItems(
                    [results EXCEPT ![item.id] =
                        Decision(item.needs_edit, item.reason, item.snippet)],
                    Tail(items), chunk)

\* the else branch: every row of the chunk gets parse_error
BatchFallback(results, chunk) ==
    [i \in DOMAIN results |->
        IF i \in {chunk[j].idx : j \in 1..Len(chunk)}
        THEN ParseErrorDecision ELSE results[i]]

RECURSIVE DetectChunks(_, _, _, _, _)
DetectChunks(chunks, k, results, ready, responses) ==
    IF k > Len(chunks)
    THEN [raised |-> FALSE, results |-> results, calls |-> k - 1]
    ELSE LET content == call_openai(ready, responses[k])
             parsed == extract_json_structure(content)
             applied == ApplyItems(results, parsed.items, chunks[k])
         IN  IF content.kind = "raise"
             THEN [raised |-> TRUE, results |-> results, calls |-> k]
             ELSE IF parsed.kind = "list"
             THEN IF applied.raised
                  THEN [raised |-> TRUE, results |-> results, calls |-> k]
                  ELSE DetectChunks(chunks, k + 1, applied.results,
                                    ready, responses)
             ELSE DetectChunks(chunks, k + 1,
                               BatchFallback(results, chunks[k]),
                               ready, responses)

\* The first definition of detect_inconsistencies, which the second one
\* shadows: it returns the defaults when OPENAI_READY is false.
detect_inconsistencies_shadowed(rows, ready, responses) ==
    LET results == [i \in {rows[j].idx : j \in 1..Len(rows)} |->
                        DefaultDecision]
    IN  IF rows = <<>> \/ ~ready
        THEN [raised |-> FALSE, results |-> results, calls |-> 0]
        ELSE DetectChunks(chunk_list(rows, DETECTION_BATCH_SIZE), 1,
                          results, ready, responses)

\* detect_inconsistencies: calls counts the call_openai invocations
detect_inconsistencies(rows, ready, responses) ==
    LET results == [i \in {rows[j].idx : j \in 1..Len(rows)} |->
                        DefaultDecision]
    IN  IF rows = <<>>
        THEN [raised |-> FALSE, results |-> results, calls |-> 0]
        ELSE DetectChunks(chunk_list(rows, DETECTION_BATCH_SIZE), 1,
                          results, ready, responses)

(***************************************************************************)
(* rewrite_snippet                                                         *)
(***************************************************************************)
Rewrite(answer, changed, reason) ==
    [answer |-> answer, changed |-> changed, reason |-> reason,
     raised |-> FALSE]

rewrite_snippet(original_answer, snippet, ready, response) ==
    LET content == call_openai(ready, response)
        parsed == extract_json_structure(content)
        replacement == Strip(parsed.items[1].replacement)
    IN  IF snippet = <<>> \/ ~ready
        THEN Rewrite(original_answer, FALSE, "no_snippet")
        ELSE IF content.kind = "raise"
        THEN [answer |-> original_answer, changed |-> FALSE,
              reason |-> "", raised |-> TRUE]
        ELSE IF parsed.kind # "dict"
        THEN Rewrite(original_answer, FALSE, "parse_error_rewrite")
        ELSE IF replacement = <<>>
        THEN Rewrite(original_answer, FALSE, "empty_rewrite")
        ELSE IF Contains(original_answer, snippet)
        THEN Rewrite(ReplaceFirst(original_answer, snippet, replacement),
                     TRUE, "fixed")
        ELSE Rewrite(original_answer, FALSE, "snippet_not_found")

(***************************************************************************)
(* The per-call source records and the flat export built from them.        *)
(* insights[c] is the payload of insights_per_call/<c>.json: exists says   *)
(* whether the file is there, pairs is its verbatim_QA_pairs.  The payload *)
(* names no conversation_id of its own, so the file's stem is the call_id. *)
(***************************************************************************)
CallOrder == <<"c1", "c2">>     \* sorted(Path(in_dir).glob("*.json"))
CallIds == Range(CallOrder)

\* A mutant of update_insights_pair: the index is not compared with 0, so
\* that pair_index 0 addresses the last pair as qa_pairs[-1] does.
update_insights_pair_wrapping(ins, call_id, pair_index, new_answer) ==
    LET n == IF call_id \in DOMAIN ins THEN Len(ins[call_id].pairs) ELSE 0
        idx == IF pair_index - 1 < 0 THEN pair_index - 1 + n
               ELSE pair_index - 1
    IN  IF call_id \notin DOMAIN ins \/ ~ins[call_id].exists
        THEN [ok |-> FALSE, insights |-> ins]
        ELSE IF 0 <= idx /\ idx < n
        THEN [ok |-> TRUE,
              insights |-> [ins EXCEPT ![call_id].pairs[idx + 1].a =
                                            new_answer]]
        ELSE [ok |-> FALSE, insights |-> ins]

\* update_insights_pair: [ok, insights]
update_insights_pair(ins, call_id, pair_index, new_answer) ==
    LET idx == pair_index - 1
    IN  IF call_id \notin DOMAIN ins \/ ~ins[call_id].exists
        THEN [ok |-> FALSE, insights |-> ins]
        ELSE IF 0 <= idx /\ idx < Len(ins[call_id].pairs)
        THEN [ok |-> TRUE,
              insights |-> [ins EXCEPT ![call_id].pairs[idx + 1].a =
                                            new_answer]]
        ELSE [ok |-> FALSE, insights |-> ins]

\* export_pairs: the rows of one file, then of all files in sorted order
ExportFile(ins, call_id) ==
    LET pairs == ins[call_id].pairs
        Record(i) == [call_id |-> call_id,
                      pair_index |-> i,
                      question |-> Strip(pairs[i].q),
                      answer |-> Strip(pairs[i].a),
                      intent |-> ins[call_id].client_intent,
                      needs_review |-> FALSE,
                      review_notes |-> Plain(<<>>)]
        all == [i \in 1..Len(pairs) |-> Record(i)]
        NotEmpty(record) == ~(record.question = <<>> /\ record.answer = <<>>)
    IN  IF ins[call_id].exists THEN SelectSeq(all, NotEmpty) ELSE <<>>

RECURSIVE ExportFrom(_, _)
ExportFrom(ins, k) ==
    IF k > Len(CallOrder) THEN <<>>
    ELSE ExportFile(ins, CallOrder[k]) \o ExportFrom(ins, k + 1)

export_pairs(ins) == ExportFrom(ins, 1)

\* the target nlu-export of the Makefile: the flat export is rebuilt from
\* the per-call records (35_export_nlu_pairs.py with its default paths)
make_nlu_export(ins) == export_pairs(ins)

\* regenerate_nlu_export: `make nlu-export` rebuilds the export and True is
\* returned, or it fails, the export stays as it is and False is returned
regenerate_nlu_export(file, ins, makeOk) ==
    IF makeOk THEN [ok |-> TRUE, nluFile |-> make_nlu_export(ins)]
    ELSE [ok |-> FALSE, nluFile |-> file]

(***************************************************************************)
(* update_records (the correct operation).  st holds the collections as    *)
(* main() loaded them and the files behind them; script.det[k] and         *)
(* script.rew[idx] are the collaborator's answers to the detection request *)
(* for batch k and to the rewrite request for row idx; makeOk says whether *)
(* `make nlu-export` succeeds.  The result holds the collections and files *)
(* as the call leaves them, also when it ends by an exception (aborted).   *)
(***************************************************************************)
\* A mutant of CountRewrite: a successful rewrite is not counted.
CountRewriteNever(rewrites_done, changed_flag) == rewrites_done

\* rewrites_done += 1 if changed_flag else 0
CountRewrite(rewrites_done, changed_flag) ==
    rewrites_done + (IF changed_flag THEN 1 ELSE 0)

Diff(row, old_answer, new_answer, changed, reason) ==
    [call_id |-> row.call_id, pair_index |-> row.pair_index,
     question |-> row.question, old_answer |-> old_answer,
     new_answer |-> new_answer, changed |-> changed, llm_used |-> changed,
     reason |-> reason]

\* revised_answer, changed_flag, llm_reason = rewrite_snippet(..);
\* needs_edit = changed_flag
Rewritten(rw) ==
    [revised_answer |-> rw.answer, needs_edit |-> rw.changed,
     llm_reason |-> rw.reason, changed_flag |-> rw.changed,
     raised |-> rw.raised]

\* One pass of the loop over selected_row_indices, for a row reached with
\* budget left: what the detector's decision and the rewriter make of it.
RowOutcome(original_answer, detect_info, rewrites_done, ready, response) ==
        IF detect_info.needs_edit /\ detect_info.snippet # <<>>
        THEN IF rewrites_done < MAX_REWRITES
             THEN Rewritten(rewrite_snippet(original_answer,
                                            detect_info.snippet,
                                            ready, response))
             ELSE [revised_answer |-> original_answer, needs_edit |-> FALSE,
                   llm_reason |-> "limit_reached", changed_flag |-> FALSE,
                   raised |-> FALSE]
        ELSE IF detect_info.needs_edit /\ detect_info.snippet = <<>>
        THEN [revised_answer |-> original_answer, needs_edit |-> FALSE,
              llm_reason |-> "no_snippet", changed_flag |-> FALSE,
              raised |-> FALSE]
        ELSE [revised_answer |-> original_answer,
              needs_edit |-> detect_info.needs_edit,
              llm_reason |-> detect_info.reason, changed_flag |-> FALSE,
              raised |-> FALSE]

\* A mutant of Skipped: the skipped row leaves no entry in the trace.
SkippedUnlogged(acc, row) == acc

\* the budget is spent: the row is logged as skipped and the loop goes on
Skipped(acc, row) ==
    [acc EXCEPT !.logs = Append(@, Diff(row, row.answer, row.answer, FALSE,
                                        "limit_reached"))]

\* A mutant of FixedRow: the row keeps its needs_review flag.
FixedRowStillStale(row, revised_answer, note) ==
    [row EXCEPT !.answer = revised_answer, !.review_notes = note]

\* the three assignments to a row that is changed
FixedRow(row, revised_answer, note) ==
    [row EXCEPT !.answer = revised_answer,
                !.needs_review = FALSE,
                !.review_notes = note]

\* the rest of the pass, once the row's outcome `out` is known
RowApply(acc, idx, note, out) ==
    LET row == acc.rows[idx]
        original_answer == row.answer
        changed == out.needs_edit /\ out.revised_answer # original_answer
        patch == IF row.call_id # "" /\ row.pair_index # 0
                 THEN update_insights_pair(acc.insights, row.call_id,
                                           row.pair_index, out.revised_answer)
                 ELSE [ok |-> FALSE, insights |-> acc.insights]
        previous == Append(acc.previous_rows,
                           [call_id |-> row.call_id,
                            pair_index |-> row.pair_index,
                            previous_answer |-> original_answer])
    IN  IF acc.rewrites_done >= MAX_REWRITES
        THEN Skipped(acc, row)
        ELSE IF out.raised
        THEN [acc EXCEPT !.raised = TRUE, !.previous_rows = previous]
        ELSE [rows |-> IF changed
                       THEN [acc.rows EXCEPT ![idx] =
                               FixedRow(@, out.revised_answer, note)]
                       ELSE acc.rows,
              insights |-> IF changed THEN patch.insights ELSE acc.insights,
              writes |-> IF changed /\ patch.ok
                         THEN Append(acc.writes, "source") ELSE acc.writes,
              updated_rows |-> IF changed
                               THEN Append(acc.updated_rows,
                                           [call_id |-> row.call_id,
                                            pair_index |-> row.pair_index])
                               ELSE acc.updated_rows,
              previous_rows |-> previous,
              logs |-> Append(acc.logs,
                              Diff(row, original_answer, out.revised_answer,
                                   changed, out.llm_reason)),
              llm_used |-> acc.llm_used \/ changed,
              rewrites_done |-> CountRewrite(acc.rewrites_done,
                                             out.changed_flag),
              raised |-> FALSE]

RowStep(acc, idx, detection_map, note, ready, response) ==
    RowApply(acc, idx, note,
             RowOutcome(acc.rows[idx].answer, detection_map[idx],
                        acc.rewrites_done, ready, response))

RECURSIVE RowLoop(_, _, _, _, _, _, _)
RowLoop(acc, selected, k, detection_map, note, ready, rew) ==
    IF k > Len(selected) \/ acc.raised THEN acc
    ELSE RowLoop(RowStep(acc, selected[k], detection_map, note, ready,
                         rew[selected[k]]),
                 selected, k + 1, detection_map, note, ready, rew)

\* What update_records returns or raises, next to the store it leaves.
Outcome(aborted, ret, rewrites_done, detection, writes) ==
    [aborted |-> aborted, ret |-> ret, rewrites_done |-> rewrites_done,
     detection |-> detection, writes |-> writes]

\* A mutant of FinishWrites: the record is logged before the rows are saved
\* and the export is regenerated.
FinishWritesLogFirst(writes, any_updated, regenerated, logged) ==
    writes
    \o (IF logged THEN <<"log">> ELSE <<>>)
    \o (IF any_updated THEN <<"rows">> ELSE <<>>)
    \o (IF any_updated /\ regenerated THEN <<"export">> ELSE <<>>)

\* the files written at the end of update_records, in the order of the
\* statements: save_nlu_rows, regenerate_nlu_export, append_correction_log
FinishWrites(writes, any_updated, regenerated, logged) ==
    writes
    \o (IF any_updated THEN <<"rows">> ELSE <<>>)
    \o (IF any_updated /\ regenerated THEN <<"export">> ELSE <<>>)
    \o (IF logged THEN <<"log">> ELSE <<>>)

\* the end of update_records, once the loop over the rows has run: the
\* export is saved and regenerated and the record is logged
update_records_finish(st, saved, head, makeOk, detection, loop) ==
    LET regen == regenerate_nlu_export(save_nlu_rows(loop.rows),
                                       loop.insights, makeOk)
        log_entry == [canonical_question |-> head.canonical_question,
                      reviewed_at |-> head.reviewed_at,
                      reviewer |-> head.reviewer,
                      comment |-> head.comment,
                      corrected_answer |-> head.corrected_answer,
                      updated_rows |-> loop.updated_rows,
                      type |-> "corrected",
                      nlu_regenerated |-> loop.updated_rows # <<>>,
                      previous_kb_answer |-> head.previous_kb_answer,
                      previous_rows |-> loop.previous_rows,
                      llm_used |-> loop.llm_used,
                      row_diffs |-> loop.logs]
    IN  IF loop.raised
        THEN [st |-> [saved EXCEPT !.nlu_rows = loop.rows,
                                   !.insights = loop.insights],
              out |-> Outcome(TRUE, NoRecord, loop.rewrites_done,
                              detection.results, loop.writes)]
        ELSE [st |-> [saved EXCEPT
                        !.nlu_rows = loop.rows,
                        !.insights = loop.insights,
                        !.nluFile = IF loop.updated_rows # <<>>
                                    THEN regen.nluFile ELSE st.nluFile,
                        !.corrLog = append_correction_log(st.corrLog,
                                                          log_entry)],
              out |-> Outcome(FALSE, log_entry, loop.rewrites_done,
                              detection.results,
                              FinishWrites(loop.writes,
                                           loop.updated_rows # <<>>,
                                           regen.ok,
                                           read_last_log_entry(st.corrLog)
                                               # log_entry))]

\* the middle of update_records, once the detector has answered: the loop
\* over selected_row_indices
update_records_rows(st, saved, head, note, selected, ready, rew, makeOk, detection) ==
    IF detection.raised
    THEN [st |-> saved,
          out |-> Outcome(TRUE, NoRecord, 0, detection.results, head.writes)]
    ELSE update_records_finish(
            st, saved, head, makeOk, detection,
            RowLoop([rows |-> st.nlu_rows, insights |-> st.insights,
                     updated_rows |-> <<>>, previous_rows |-> <<>>,
                     logs |-> <<>>, llm_used |-> FALSE,
                     rewrites_done |-> 0, raised |-> FALSE,
                     writes |-> head.writes],
                    selected, 1, detection.results, note, ready, rew))

update_records(st, kb_index, new_answer, reviewer, comment, selected, timestamp, ready, script, makeOk) ==
    LET canonical_question == st.kb_entries[kb_index].canonical_question
        kb == [st.kb_entries EXCEPT ![kb_index] =
                 [@ EXCEPT !.best_answer = Strip(new_answer),
                           !.last_reviewed_at = timestamp,
                           !.last_reviewer = reviewer,
                           !.review_comment = Plain(Strip(comment)),
                           !.pending_review = FALSE]]
        at == ClusterAt(st.cluster_map, canonical_question)
        clusters == SetClusterAnswer(st.cluster_map, at, Strip(new_answer))
        saved == [st EXCEPT !.kb_entries = kb,
                            !.kbFile = save_kb(kb),
                            !.cluster_map = clusters,
                            !.clusterFile = IF at # 0
                                            THEN save_clusters(clusters)
                                            ELSE st.clusterFile]
        head == [canonical_question |-> canonical_question,
                 reviewed_at |-> timestamp,
                 reviewer |-> reviewer,
                 comment |-> Strip(comment),
                 corrected_answer |-> Strip(new_answer),
                 previous_kb_answer |-> st.kb_entries[kb_index].best_answer,
                 writes |-> IF at # 0 THEN <<"kb", "clusters">>
                            ELSE <<"kb">>]
        note == Note("fixed_note", timestamp, reviewer, Strip(comment))
        batch_rows == [k \in 1..Len(selected) |->
                         [idx |-> selected[k],
                          question |-> st.nlu_rows[selected[k]].question,
                          answer |-> st.nlu_rows[selected[k]].answer]]
    IN  update_records_rows(st, saved, head, note, selected, ready,
                            script.rew, makeOk,
                            detect_inconsistencies(batch_rows, ready,
                                                   script.det))

(***************************************************************************)
(* confirm_entry and undo_last_correction.                                 *)
(***************************************************************************)
\* A mutant of ConfirmedEntry: pending_review is left as it was.
ConfirmedEntryStillPending(entry, reviewer, comment, timestamp) ==
    [entry EXCEPT !.last_reviewed_at = timestamp,
                  !.last_reviewer = reviewer,
                  !.review_comment = Plain(Strip(comment))]

\* A mutant of ConfirmedEntry: the confirmation also resets the intent.
ConfirmedEntryIntent(entry, reviewer, comment, timestamp) ==
    [entry EXCEPT !.pending_review = FALSE,
                  !.intent = "",
                  !.last_reviewed_at = timestamp,
                  !.last_reviewer = reviewer,
                  !.review_comment = Plain(Strip(comment))]

\* the four assignments to the entry
ConfirmedEntry(entry, reviewer, comment, timestamp) ==
    [entry EXCEPT !.pending_review = FALSE,
                  !.last_reviewed_at = timestamp,
                  !.last_reviewer = reviewer,
                  !.review_comment = Plain(Strip(comment))]

confirm_entry(st, kb_index, reviewer, comment, timestamp) ==
    LET kb == [st.kb_entries EXCEPT ![kb_index] =
                 ConfirmedEntry(@, reviewer, comment, timestamp)]
        log_entry == [canonical_question |->
                          st.kb_entries[kb_index].canonical_question,
                      reviewed_at |-> timestamp,
                      reviewer |-> reviewer,
                      comment |-> Strip(comment),
                      type |-> "confirmed"]
    IN  [st |-> [st EXCEPT !.kb_entries = kb,
                           !.kbFile = save_kb(kb),
                           !.corrLog = append_correction_log(st.corrLog,
                                                             log_entry)],
         out |-> [aborted |-> FALSE, ret |-> log_entry]]

\* the loop over previous_rows: the first row with the call_id and
\* pair_index is restored and the source record is patched
RECURSIVE RestoreRows(_, _, _, _)
RestoreRows(acc, prev_rows, k, note) ==
    IF k > Len(prev_rows) THEN acc
    ELSE LET prev == prev_rows[k]
             hits == {i \in 1..Len(acc.rows) :
                        /\ acc.rows[i].call_id = prev.call_id
                        /\ acc.rows[i].pair_index = prev.pair_index}
             i == Min(hits)
         IN  IF prev.call_id = "" \/ prev.pair_index = 0 \/ hits = {}
             THEN RestoreRows(acc, prev_rows, k + 1, note)
             ELSE RestoreRows(
                    [rows |-> [acc.rows EXCEPT ![i] =
                                 [@ EXCEPT !.answer = prev.previous_answer,
                                           !.needs_review = TRUE,
                                           !.review_notes = note]],
                     insights |-> update_insights_pair(
                                    acc.insights, prev.call_id,
                                    prev.pair_index,
                                    prev.previous_answer).insights],
                    prev_rows, k + 1, note)

\* prev_answer = record.get("previous_kb_answer")
RestoredAnswer(record) == record.previous_kb_answer

\* A mutant of NoCorrectionToUndo: the call returns without an error.
NoCorrectionIgnored(st) ==
    [st |-> st, out |-> [aborted |-> FALSE, error |-> "", ret |-> NoRecord]]

\* raise ValueError: there is no correction that could be undone
NoCorrectionToUndo(st) ==
    [st |-> st,
     out |-> [aborted |-> TRUE, error |-> "NoCorrectionToUndo",
              ret |-> NoRecord]]

undo_last_correction(st, canonical_question, timestamp, makeOk) ==
    LET record == find_last_correction(st.corrLog, canonical_question)
        prev_answer == RestoredAnswer(record)
        hits == {i \in 1..Len(st.kb_entries) :
                    st.kb_entries[i].canonical_question = canonical_question}
        kb == IF hits = {} THEN st.kb_entries
              ELSE [st.kb_entries EXCEPT ![Min(hits)] =
                     [@ EXCEPT !.best_answer = prev_answer,
                               !.pending_review = TRUE,
                               !.last_reviewed_at = record.reviewed_at,
                               !.last_reviewer = record.reviewer,
                               !.review_comment =
                                   Note("rollback_comment",
                                        record.reviewed_at, "", <<>>)]]
        at == ClusterAt(st.cluster_map, canonical_question)
        clusters == SetClusterAnswer(st.cluster_map, at, prev_answer)
        prev_rows == record.previous_rows
        note == Note("rollback_note", record.reviewed_at, record.reviewer,
                     <<>>)
        loop == RestoreRows([rows |-> st.nlu_rows, insights |-> st.insights],
                            prev_rows, 1, note)
        regen == regenerate_nlu_export(save_nlu_rows(loop.rows),
                                       loop.insights, makeOk)
        undo_entry == [canonical_question |-> canonical_question,
                       undone_at |-> timestamp,
                       undone_record |-> record.reviewed_at,
                       type |-> "undo"]
    IN  IF record = NoRecord
        THEN NoCorrectionToUndo(st)
        ELSE [st |-> [st EXCEPT
                        !.kb_entries = kb,
                        !.kbFile = save_kb(kb),
                        !.cluster_map = clusters,
                        !.clusterFile = IF at # 0 THEN save_clusters(clusters)
                                        ELSE st.clusterFile,
                        !.nlu_rows = loop.rows,
                        !.insights = loop.insights,
                        !.nluFile = IF prev_rows # <<>> THEN regen.nluFile
                                    ELSE st.nluFile,
                        !.corrLog = append_correction_log(st.corrLog,
                                                          undo_entry)],
              out |-> [aborted |-> FALSE, error |-> "", ret |-> undo_entry]]

(***************************************************************************)
(* The store the review application starts on: two KB entries, their two   *)
(* clusters, two per-call records and the export `make nlu-export` built   *)
(* from them.  After the export was built a per-call record may have been  *)
(* removed or cut short.                                                   *)
(***************************************************************************)
Q1 == <<"R", "?">>
Q2 == <<"T", "?">>

KbEntry(question, answer) ==
    [canonical_question |-> question, best_answer |-> answer,
     intent |-> "rate", pending_review |-> TRUE,
     last_reviewed_at |-> NoStamp, last_reviewer |-> "",
     review_comment |-> Plain(<<>>), eligibility_rules |-> <<"adult">>]

Cluster(question, answer, calls, phrases) ==
    [canonical_q |-> question, best_answer |-> answer,
     source_conversation_ids |-> calls, near_duplicates |-> phrases]

InitKb == <<KbEntry(Q1, <<"7">>), KbEntry(Q2, <<"8">>)>>

InitClusters ==
    <<Cluster(Q1, <<"6">>, {"c1"}, {<<"R", "?">>, <<>>}),
      Cluster(Q2, <<"8">>, {"c2"}, {})>>

Payload(exists, pairs) ==
    [exists |-> exists, pairs |-> pairs, client_intent |-> "rate"]

Pair(q, a) == [q |-> q, a |-> a]

FullInsights ==
    [c \in CallIds |->
        IF c = "c1"
        THEN Payload(TRUE, <<Pair(<<"r", "?">>, <<"2", "x", "2", " ">>)>>)
        ELSE Payload(TRUE, <<Pair(<<"o", "r", "?">>, <<"x", "2">>),
                             Pair(<<"t", "?">>, <<"9">>)>>)]

\* the per-call records as they may be when the application starts: all
\* there, or the record of c1 removed and the record of c2 cut short
InitInsights ==
    {FullInsights,
     [c \in CallIds |->
        IF c = "c1" THEN Payload(FALSE, <<>>)
        ELSE Payload(TRUE, SubSeq(FullInsights[c].pairs, 1,
                                  Len(FullInsights[c].pairs) - 1))]}

Reviewers == {"ann"}
Comments == {<<"k", " ">>}
NewAnswers == {<<"1">>, <<"3", " ">>, <<"7">>}

(***************************************************************************)
(* What the collaborator may answer within one operation.  A plan names    *)
(* the rows the detector flags and the snippet it reports for them, and at *)
(* most one fault: one detection response that is prose or an exception,   *)
(* or one rewrite response that holds a blank replacement, repeats the     *)
(* snippet as its replacement, or is an exception.  Without a client no    *)
(* request is sent and one plan is enough.                                 *)
(***************************************************************************)
Snippets == {<<"2">>}

FlagSets(idxs) ==
    {idxs, {}} \cup {{i} : i \in idxs} \cup {idxs \ {i} : i \in idxs}

\* a JSON array with one decision per row of the batch
DetArray(chunk, flagged, snippet) ==
    Content(<<Tok("[")>>
            \o [j \in 1..Len(chunk) |->
                    IF chunk[j].idx \in flagged
                    THEN DetItem(chunk[j].idx, TRUE, "conflict", snippet)
                    ELSE DetItem(chunk[j].idx, FALSE, "ok", <<>>)]
            \o <<Tok("]")>>)

Batches(selected) ==
    chunk_list([k \in 1..Len(selected) |-> [idx |-> selected[k]]],
               DETECTION_BATCH_SIZE)

Plan(flagged, snippet, detFault, detAt, rewFault, rewAt) ==
    [flagged |-> flagged, snippet |-> snippet, detFault |-> detFault,
     detAt |-> detAt, rewFault |-> rewFault, rewAt |-> rewAt]

Plans(selected, ready) ==
    LET idxs == Range(selected)
        nb == Len(Batches(selected))
    IN  IF ~ready \/ selected = <<>>
        THEN {Plan({}, <<>>, "none", 0, "none", 0)}
        ELSE {Plan(f, s, "none", 0, "none", 0) :
                f \in FlagSets(idxs), s \in Snippets}
             \cup {Plan(idxs, s, d, k, "none", 0) :
                     s \in Snippets, d \in {"prose", "raise"}, k \in 1..nb}
             \cup {Plan(idxs, s, "none", 0, r, i) :
                     s \in Snippets, r \in {"blank", "raise", "same"},
                     i \in idxs}

\* the collaborator's answers under a plan
ScriptOf(plan, selected) ==
    LET chunks == Batches(selected)
    IN  [det |-> [k \in 1..Len(chunks) |->
                    IF plan.detFault = "prose" /\ k = plan.detAt
                    THEN Content(<<Tok("w")>>)
                    ELSE IF plan.detFault = "raise" /\ k = plan.detAt
                    THEN Raises
                    ELSE DetArray(chunks[k], plan.flagged, plan.snippet)],
         rew |-> [i \in Range(selected) |->
                    IF plan.rewFault = "blank" /\ i = plan.rewAt
                    THEN Content(<<RewObj(<<" ">>)>>)
                    ELSE IF plan.rewFault = "raise" /\ i = plan.rewAt
                    THEN Raises
                    ELSE IF plan.rewFault = "same" /\ i = plan.rewAt
                    THEN Content(<<RewObj(plan.snippet)>>)
                    ELSE Content(<<Tok("w"), RewObj(<<"1", " ">>)>>)]]

(***************************************************************************)
(* One run of main(): the collections are loaded from their files, the     *)
(* operation is applied, and the run ends.                                 *)
(***************************************************************************)
Files == [kbFile |-> kbFile, clusterFile |-> clusterFile,
          nluFile |-> nluFile, insights |-> insights, corrLog |-> corrLog]

\* main(): kb_entries = load_kb(); cluster_map = load_clusters(); ...
Loaded ==
    [kb_entries |-> load_kb(kbFile),
     cluster_map |-> load_clusters(clusterFile),
     nlu_rows |-> load_nlu_rows(nluFile),
     kbFile |-> kbFile, clusterFile |-> clusterFile, nluFile |-> nluFile,
     insights |-> insights, corrLog |-> corrLog]

NoCall == [op |-> "none"]

\* the record of a call: what ran, on which question, what it gave, with
\* the files as they were before it and the call before it
Call(op, question, args, out, before) ==
    [op |-> op, q |-> question, args |-> args, out |-> out,
     before |-> before,
     prev |-> IF last = NoCall THEN NoCall
              ELSE [last EXCEPT !.prev = NoCall]]

\* the run ends: the files and collections are as the operation left them
Leave(op, question, args, result) ==
    /\ kbFile' = result.st.kbFile
    /\ clusterFile' = result.st.clusterFile
    /\ nluFile' = result.st.nluFile
    /\ insights' = result.st.insights
    /\ corrLog' = result.st.corrLog
    /\ kb_entries' = result.st.kb_entries
    /\ cluster_map' = result.st.cluster_map
    /\ nlu_rows' = result.st.nlu_rows
    /\ last' = Call(op, question, args, result.out, Files)

Confirm ==
    /\ ops < MaxOps
    /\ \E kb_index \in 1..Len(kbFile), reviewer \in Reviewers,
          comment \in Comments :
           Leave("confirm", kbFile[kb_index].canonical_question,
                 [kb_index |-> kb_index, reviewer |-> reviewer,
                  comment |-> comment, at |-> now],
                 confirm_entry(Loaded, kb_index, reviewer, comment, now))
    /\ ops' = ops + 1
    /\ UNCHANGED <<OPENAI_READY, now, pc>>

\* A mutant of Candidates: every row of the export is selected.
EveryRow(kb_index) == [i \in 1..Len(nluFile) |-> i]

\* the candidate rows as main() lists them, all of them selected
Candidates(kb_index) ==
    find_candidate_rows(kbFile[kb_index].canonical_question,
                        load_clusters(clusterFile), load_nlu_rows(nluFile))

Correct ==
    /\ ops < MaxOps
    /\ \E kb_index \in 1..Len(kbFile), new_answer \in NewAnswers,
          reviewer \in Reviewers, comment \in Comments, makeOk \in BOOLEAN :
           \E selected \in {Candidates(kb_index)} :
               \E plan \in Plans(selected, OPENAI_READY) :
                   Leave("correct", kbFile[kb_index].canonical_question,
                         [kb_index |-> kb_index, new_answer |-> new_answer,
                          reviewer |-> reviewer, comment |-> comment,
                          at |-> now, selected |-> selected,
                          plan |-> plan, makeOk |-> makeOk],
                         update_records(Loaded, kb_index, new_answer,
                                        reviewer, comment, selected, now,
                                        OPENAI_READY,
                                        ScriptOf(plan, selected), makeOk))
    /\ ops' = ops + 1
    /\ UNCHANGED <<OPENAI_READY, now, pc>>

Undo ==
    /\ ops < MaxOps
    /\ \E kb_index \in 1..Len(kbFile), makeOk \in BOOLEAN :
           Leave("undo", kbFile[kb_index].canonical_question,
                 [kb_index |-> kb_index, at |-> now, makeOk |-> makeOk],
                 undo_last_correction(Loaded,
                                      kbFile[kb_index].canonical_question,
                                      now, makeOk))
    /\ ops' = ops + 1
    /\ UNCHANGED <<OPENAI_READY, now, pc>>

\* a minute passes between two operations
Tick ==
    /\ now < MaxClock
    /\ now' = now + 1
    /\ UNCHANGED <<store, OPENAI_READY, ops, pc, last>>

Init ==
    /\ kbFile = InitKb
    /\ clusterFile = InitClusters
    /\ nluFile = export_pairs(FullInsights)
    /\ insights \in InitInsights
    /\ corrLog = <<>>
    /\ kb_entries = kbFile
    /\ cluster_map = load_clusters(clusterFile)
    /\ nlu_rows = nluFile
    /\ OPENAI_READY \in BOOLEAN
    /\ now = 0
    /\ ops = 0
    /\ pc = "idle"
    /\ last = NoCall

Next == Confirm \/ Correct \/ Undo \/ Tick

Spec == Init /\ [][Next]_vars

(***************************************************************************)
(* Properties of the store, read off the record of the last call.          *)
(***************************************************************************)
\* the best_answer of the question's entry (the first one) in a KB list
KbAnswerOf(kb, question) ==
    kb[Min({i \in 1..Len(kb) : kb[i].canonical_question = question})]
        .best_answer

\* the answers of the rows with a (call_id, pair_index) in a row list
AnswersOf(rows, call_id, pair_index) ==
    {rows[i].answer : i \in {j \in 1..Len(rows) :
                                /\ rows[j].call_id = call_id
                                /\ rows[j].pair_index = pair_index}}

\* the last call is a completed undo that follows at once a completed
\* correct of the same question
UndoAfterCorrect ==
    /\ last.op = "undo"
    /\ ~last.out.aborted
    /\ last.prev.op = "correct"
    /\ ~last.prev.out.aborted
    /\ last.prev.q = last.q

\* C1: an undo that follows at once a correct of the same question restores
\* the KB answer the correct replaced and the pre-correction answer of every
\* row the correct rewrote, and appends exactly one record of type undo.
C1_UndoRoundTrip ==
    UndoAfterCorrect =>
        LET correct == last.prev
            A == KbAnswerOf(correct.before.kbFile, last.q)
            R == correct.out.ret.updated_rows
        IN  /\ KbAnswerOf(kbFile, last.q) = A
            /\ KbAnswerOf(kb_entries, last.q) = A
            /\ \A k \in 1..Len(R) :
                    /\ AnswersOf(nluFile, R[k].call_id, R[k].pair_index) # {}
                    /\ AnswersOf(nluFile, R[k].call_id, R[k].pair_index) =
                       AnswersOf(correct.before.nluFile, R[k].call_id,
                                 R[k].pair_index)
            /\ corrLog = Append(last.before.corrLog, JsonLine(last.out.ret))
            /\ last.out.ret.type = "undo"

\* the best_answer of the question's cluster in a cluster list
ClusterAnswerOf(clusters, question) ==
    clusters[ClusterAt(clusters, question)].best_answer

HasKbEntry(kb, question) ==
    \E i \in 1..Len(kb) : kb[i].canonical_question = question

\* C5: after every completed correct or undo on a question that has a KB
\* entry and a cluster, the cluster's best_answer equals the entry's, in the
\* collections in memory and in the persisted ones.
C5_KbClusterSync ==
    (/\ last.op \in {"correct", "undo"}
     /\ ~last.out.aborted
     /\ HasKbEntry(kbFile, last.q)
     /\ ClusterAt(clusterFile, last.q) # 0) =>
        /\ ClusterAnswerOf(clusterFile, last.q) = KbAnswerOf(kbFile, last.q)
        /\ ClusterAnswerOf(cluster_map, last.q) = KbAnswerOf(kb_entries, last.q)

\* a correct of a question whose cluster and KB entry disagreed, undone
C5_Witness ==
    /\ UndoAfterCorrect
    /\ ClusterAnswerOf(last.prev.before.clusterFile, last.q) #
       KbAnswerOf(last.prev.before.kbFile, last.q)
    /\ KbAnswerOf(last.before.kbFile, last.q) # KbAnswerOf(kbFile, last.q)
    /\ ClusterAnswerOf(clusterFile, last.q) = KbAnswerOf(kbFile, last.q)

\* what confirm does to the KB and leaves alone elsewhere
ConfirmFrame ==
    LET i == last.args.kb_index
        before == last.before
    IN  /\ kbFile[i].pending_review = FALSE
        /\ kbFile[i].last_reviewer = last.args.reviewer
        /\ kbFile[i].last_reviewed_at = last.args.at
        /\ kbFile[i].review_comment = Plain(Strip(last.args.comment))
        /\ kbFile[i].best_answer = before.kbFile[i].best_answer
        /\ Len(kbFile) = Len(before.kbFile)
        /\ \A j \in 1..Len(kbFile) : j # i => kbFile[j] = before.kbFile[j]
        /\ kb_entries = kbFile
        /\ clusterFile = before.clusterFile
        /\ nluFile = before.nluFile
        /\ insights = before.insights
        /\ cluster_map = load_clusters(before.clusterFile)
        /\ nlu_rows = load_nlu_rows(before.nluFile)
        /\ last.out.ret.type = "confirmed"

\* C8 as stated: confirm sets pending_review to false, stamps reviewer, time
\* and comment, persists the KB and appends one record of type confirmed,
\* and leaves the answer, the other entries, the clusters, the rows and the
\* source records unchanged.
C8_ConfirmAppendsOne ==
    last.op = "confirm" =>
        /\ ConfirmFrame
        /\ corrLog = Append(last.before.corrLog, JsonLine(last.out.ret))

\* C8 as amended: the confirmed record is appended unless the log's most
\* recent record is identical to it, and then the log is left as it is.
C8_ConfirmEffect ==
    last.op = "confirm" =>
        /\ ConfirmFrame
        /\ IF read_last_log_entry(last.before.corrLog) = last.out.ret
           THEN corrLog = last.before.corrLog
           ELSE corrLog = Append(last.before.corrLog, JsonLine(last.out.ret))

\* a confirm repeated within the minute: the log keeps its one record
C8_Witness ==
    /\ last.op = "confirm"
    /\ last.prev.op = "confirm"
    /\ last.prev.out.ret = last.out.ret
    /\ kbFile[last.args.kb_index].pending_review = FALSE
    /\ corrLog = <<JsonLine(last.out.ret)>>

\* the question has no record of type corrected in a log
NoCorrectedIn(log, question) ==
    \A i \in 1..Len(log) :
        (log[i].kind = "json" /\ log[i].rec.canonical_question = question)
            => log[i].rec.type # "corrected"

\* the files are as they were before the last call, and the collections in
\* memory are what main() loaded from them
StoreUntouched ==
    /\ Files = last.before
    /\ kb_entries = load_kb(last.before.kbFile)
    /\ cluster_map = load_clusters(last.before.clusterFile)
    /\ nlu_rows = load_nlu_rows(last.before.nluFile)

\* C11: undo for a question whose log history holds no record of type
\* corrected fails with the no-correction-to-undo error and leaves the KB,
\* the clusters, the rows, the source records and the log unchanged.
C11_NoCorrectionToUndo ==
    (last.op = "undo" /\ NoCorrectedIn(last.before.corrLog, last.q)) =>
        /\ last.out.aborted
        /\ last.out.error = "NoCorrectionToUndo"
        /\ StoreUntouched

\* an undo of a question that was confirmed but never corrected
C11_Witness ==
    /\ last.op = "undo"
    /\ last.prev.op = "confirm"
    /\ last.prev.q = last.q
    /\ Len(load_corrections_for(corrLog, last.q)) = 1
    /\ last.out.aborted
    /\ corrLog = last.before.corrLog

\* a log is the beginning of another
IsPrefix(log, longer) ==
    Len(log) <= Len(longer) /\ SubSeq(longer, 1, Len(log)) = log

C14_Bulkhead ==
    last.op = "correct" =>
        /\ ~last.out.aborted
        /\ last.out.ret.type = "corrected"
        /\ Len(last.out.ret.row_diffs) = Len(last.args.selected)
        /\ read_last_log_entry(corrLog) = last.out.ret

\* the files a completed correct wrote before it logged its record
WritesBeforeLog ==
    LET writes == last.out.writes
        n == Len(writes)
        before == IF n > 0 /\ writes[n] = "log"
                  THEN SubSeq(writes, 1, n - 1) ELSE writes
    IN  /\ Range(before) \subseteq {"kb", "clusters", "source", "rows",
                                     "export"}
        /\ "kb" \in Range(before)
        /\ ClusterAt(clusterFile, last.q) # 0 => "clusters" \in Range(before)
        /\ last.out.ret.updated_rows # <<>> => "rows" \in Range(before)
        /\ last.out.ret.type = "corrected"

\* C15 as stated: every correct operation that does not fail appends
\* exactly one record of type corrected to the log, and that append is the
\* operation's last write, after the KB save, the cluster save, the row
\* rewrites and source-record patches, the row-collection save and the
\* export regeneration.
C15_AppendsOneLast ==
    (last.op = "correct" /\ ~last.out.aborted) =>
        /\ WritesBeforeLog
        /\ corrLog = Append(last.before.corrLog, JsonLine(last.out.ret))
        /\ last.out.writes[Len(last.out.writes)] = "log"

\* C15 as amended: the corrected record is appended, as the operation's
\* last write, unless the log's most recent record is identical to it, and
\* then the operation leaves the log as it is.
C15_AppendLastUnlessDuplicate ==
    (last.op = "correct" /\ ~last.out.aborted) =>
        /\ WritesBeforeLog
        /\ IF read_last_log_entry(last.before.corrLog) = last.out.ret
           THEN /\ corrLog = last.before.corrLog
                /\ "log" \notin Range(last.out.writes)
           ELSE /\ corrLog = Append(last.before.corrLog,
                                    JsonLine(last.out.ret))
                /\ last.out.writes[Len(last.out.writes)] = "log"

\* a correct that saved the KB and the clusters, patched a source record,
\* saved the rows, regenerated the export and then logged its record
C15_Witness ==
    /\ last.op = "correct"
    /\ ~last.out.aborted
    /\ last.out.writes = <<"kb", "clusters", "source", "rows", "export",
                           "log">>
    /\ corrLog = Append(last.before.corrLog, JsonLine(last.out.ret))

\* C18: the corrected record's nlu_regenerated flag is true only if the
\* export regeneration was triggered and succeeded; when the regeneration
\* fails the flag is false, while the KB and cluster changes this operation
\* persisted stay in place.
C18_RegeneratedFlag ==
    (last.op = "correct" /\ ~last.out.aborted) =>
        LET triggered == last.out.ret.updated_rows # <<>>
            answer == Strip(last.args.new_answer)
        IN  /\ last.out.ret.nlu_regenerated =>
                   /\ triggered
                   /\ last.args.makeOk
                   /\ "export" \in Range(last.out.writes)
            /\ (triggered /\ ~last.args.makeOk) =>
                   /\ ~last.out.ret.nlu_regenerated
                   /\ kbFile[last.args.kb_index].best_answer = answer
                   /\ ClusterAt(clusterFile, last.q) # 0 =>
                         ClusterAnswerOf(clusterFile, last.q) = answer

\* the same correct was submitted twice in a row, and both runs completed
SubmittedTwice ==
    /\ last.op = "correct"
    /\ last.prev.op = "correct"
    /\ ~last.out.aborted
    /\ ~last.prev.out.aborted
    /\ last.args.kb_index = last.prev.args.kb_index
    /\ last.args.new_answer = last.prev.args.new_answer
    /\ last.args.reviewer = last.prev.args.reviewer
    /\ last.args.comment = last.prev.args.comment
    /\ last.args.selected = last.prev.args.selected
    /\ last.args.at = last.prev.args.at

\* the corrected records the log holds for a submission
RecordsOf(log, question, args) ==
    {i \in 1..Len(log) :
        /\ log[i].kind = "json"
        /\ log[i].rec.type = "corrected"
        /\ log[i].rec.canonical_question = question
        /\ log[i].rec.reviewed_at = args.at
        /\ log[i].rec.reviewer = args.reviewer
        /\ log[i].rec.comment = Strip(args.comment)
        /\ log[i].rec.corrected_answer = Strip(args.new_answer)}

\* C19: submitting the same correct operation twice in a row (same
\* question, new answer, reviewer, comment, candidate rows and minute)
\* leaves exactly one corrected record for it in the log.
C19_DuplicateSubmission ==
    SubmittedTwice =>
        Cardinality(RecordsOf(corrLog, last.q, last.args)) = 1

\* C21: pending_review is true only until the first reviewer verdict: an
\* entry whose pending_review is false before a confirm, a correct or an
\* undo has it false after the operation too.
C21_PendingReviewMonotonic ==
    last.op \in {"confirm", "correct", "undo"} =>
        \A i \in 1..Len(last.before.kbFile) :
            ~last.before.kbFile[i].pending_review =>
                /\ i \in 1..Len(kbFile)
                /\ ~kbFile[i].pending_review

\* the fields of a KB entry an operation may write
ReviewFields ==
    {"best_answer", "pending_review", "last_reviewed_at", "last_reviewer",
     "review_comment"}

\* C22: no operation (confirm, correct, undo), completed or failed, adds or
\* removes a KB entry or changes a canonical_question; entries of other
\* questions stay as they were, and the entry of the target question keeps
\* every field but best_answer, pending_review and the audit fields; the
\* collection in memory is what the file holds.
C22_KbFrame ==
    last.op \in {"confirm", "correct", "undo"} =>
        /\ Len(kbFile) = Len(last.before.kbFile)
        /\ kb_entries = kbFile
        /\ \A i \in 1..Len(kbFile) :
              LET old == last.before.kbFile[i]
                  new == kbFile[i]
              IN  /\ DOMAIN new = DOMAIN old
                  /\ new.canonical_question = old.canonical_question
                  /\ old.canonical_question # last.q => new = old
                  /\ \A f \in DOMAIN old \ ReviewFields : new[f] = old[f]

\* a confirm or an undo that follows another operation changed the entry of
\* its question, kept its intent and left the other entry as it was
C22_Witness ==
    /\ last.op \in {"confirm", "undo"}
    /\ last.prev.op \in {"confirm", "correct"}
    /\ kbFile[last.args.kb_index] # last.before.kbFile[last.args.kb_index]
    /\ kbFile[last.args.kb_index].intent = "rate"
    /\ \E j \in 1..Len(kbFile) :
          /\ j # last.args.kb_index
          /\ kbFile[j] = last.before.kbFile[j]

\* C27: after a completed correct, export regeneration included, the
\* persisted flat export holds, for every row listed in the record's
\* updated_rows, the rewritten answer the record's row_diffs name for it,
\* also when the row's per-call source record is missing.
C27_ExportHoldsRewrites ==
    (last.op = "correct" /\ ~last.out.aborted) =>
        LET R == last.out.ret.updated_rows
            D == last.out.ret.row_diffs
        IN  \A k \in 1..Len(R) :
                \E d \in 1..Len(D) :
                    /\ D[d].changed
                    /\ D[d].call_id = R[k].call_id
                    /\ D[d].pair_index = R[k].pair_index
                    /\ AnswersOf(nluFile, R[k].call_id, R[k].pair_index) =
                       {D[d].new_answer}

\* C30: after a completed undo every row named in the previous_rows of the
\* record it undid is in the persisted flat export with its pre-correction
\* answer, needs_review=true and the undo note.
C30_UndoRestoresRows ==
    (last.op = "undo" /\ ~last.out.aborted) =>
        LET record == find_last_correction(last.before.corrLog, last.q)
            P == record.previous_rows
            note == Note("rollback_note", record.reviewed_at,
                         record.reviewer, <<>>)
        IN  \A k \in 1..Len(P) :
                \E i \in 1..Len(nluFile) :
                    /\ nluFile[i].call_id = P[k].call_id
                    /\ nluFile[i].pair_index = P[k].pair_index
                    /\ nluFile[i].answer = P[k].previous_answer
                    /\ nluFile[i].needs_review
                    /\ nluFile[i].review_notes = note

\* C33: no correct and no undo, export regeneration included, adds,
\* removes or reorders rows of the flat export or changes a row's call_id,
\* pair_index or question, and (call_id, pair_index) stays unique.
C33_RowIdentity ==
    last.op \in {"correct", "undo"} =>
        /\ Len(nluFile) = Len(last.before.nluFile)
        /\ \A i \in 1..Len(nluFile) :
              /\ i <= Len(last.before.nluFile)
              /\ nluFile[i].call_id = last.before.nluFile[i].call_id
              /\ nluFile[i].pair_index = last.before.nluFile[i].pair_index
              /\ nluFile[i].question = last.before.nluFile[i].question
        /\ \A i, j \in 1..Len(nluFile) :
              (/\ nluFile[i].call_id = nluFile[j].call_id
               /\ nluFile[i].pair_index = nluFile[j].pair_index) => i = j

\* the (call_id, pair_index) pairs the previous_rows of the record that an
\* undo of the last question undid name
UndoneRows ==
    LET P == find_last_correction(last.before.corrLog, last.q).previous_rows
    IN  {<<P[k].call_id, P[k].pair_index>> : k \in 1..Len(P)}

\* C39: a correct operation leaves every row of the export that is not
\* among its candidate rows as it was (answer, needs_review, review_notes),
\* and an undo leaves every row that the previous_rows of the undone record
\* do not name as it was.
C39_OtherRowsUntouched ==
    LET before == last.before.nluFile
    IN  /\ last.op = "correct" =>
              \A i \in (1..Len(before)) \ Range(last.args.selected) :
                  i <= Len(nluFile) /\ nluFile[i] = before[i]
        /\ (last.op = "undo" /\ ~last.out.aborted) =>
              \A i \in 1..Len(before) :
                  <<before[i].call_id, before[i].pair_index>> \notin UndoneRows
                      => i <= Len(nluFile) /\ nluFile[i] = before[i]

\* C37: at the end of any correct operation, completed or aborted with an
\* error, if the persisted KB or cluster best_answer of the question
\* differs from its value before the operation, the log holds a corrected
\* record of this operation whose previous_kb_answer is that earlier value.
C37_AnswerChangeAudited ==
    (last.op = "correct"
        /\ (\/ KbAnswerOf(kbFile, last.q) # KbAnswerOf(last.before.kbFile, last.q)
            \/ ClusterAnswerOf(clusterFile, last.q)
                   # ClusterAnswerOf(last.before.clusterFile, last.q))) =>
        \E i \in (Len(last.before.corrLog) + 1)..Len(corrLog) :
            /\ corrLog[i].rec.type = "corrected"
            /\ corrLog[i].rec.canonical_question = last.q
            /\ corrLog[i].rec.reviewed_at = last.args.at
            /\ corrLog[i].rec.previous_kb_answer
                   = KbAnswerOf(last.before.kbFile, last.q)

(***************************************************************************)
(* The correction log on its own: a log as the application may find it     *)
(* (records, lines that do not parse, blank lines) and records appended    *)
(* to it.  Each line ends with the newline append_correction_log writes.   *)
(***************************************************************************)
ConfirmedRecord(question, at) ==
    [canonical_question |-> question, reviewed_at |-> at,
     reviewer |-> "ann", comment |-> <<"k">>, type |-> "confirmed"]

UndoRecord(question, at) ==
    [canonical_question |-> question, undone_at |-> at,
     undone_record |-> 0, type |-> "undo"]

\* a record of type corrected, as update_records writes it
CorrectedRecord(question, at) ==
    [canonical_question |-> question, reviewed_at |-> at,
     reviewer |-> "ann", comment |-> <<"k">>, corrected_answer |-> <<"1">>,
     previous_kb_answer |-> <<"7">>, updated_rows |-> <<>>,
     previous_rows |-> <<>>, llm_used |-> FALSE, row_diffs |-> <<>>,
     nlu_regenerated |-> FALSE,
     type |-> "corrected"]

LogRecords ==
    {ConfirmedRecord(Q1, 0), ConfirmedRecord(Q1, 1), UndoRecord(Q1, 0),
     CorrectedRecord(Q1, 0), CorrectedRecord(Q1, 1), CorrectedRecord(Q2, 0)}

LogLines == {JsonLine(r) : r \in LogRecords} \cup {BadLine, BlankLine}

\* the logs of up to n lines
LogsUpTo(n) == UNION {[1..k -> LogLines] : k \in 0..n}

\* the store of a specification that looks at one function only
NoStore ==
    /\ kbFile = <<>>
    /\ clusterFile = <<>>
    /\ nluFile = <<>>
    /\ insights = [c \in {} |-> Payload(FALSE, <<>>)]
    /\ kb_entries = <<>>
    /\ cluster_map = <<>>
    /\ nlu_rows = <<>>
    /\ now = 0
    /\ ops = 0
    /\ pc = "idle"
    /\ last = NoCall

InitLog ==
    /\ NoStore
    /\ corrLog \in LogsUpTo(MaxOps)
    /\ OPENAI_READY = FALSE

AppendRecord ==
    /\ ops < MaxOps
    /\ \E record \in LogRecords :
           IF Undecodable(corrLog) # {}
           THEN /\ corrLog' = corrLog
                /\ last' = Call("append", record.canonical_question,
                                [record |-> record],
                                [aborted |-> TRUE, ret |-> NoRecord], Files)
           ELSE /\ corrLog' = append_correction_log(corrLog, record)
                /\ last' = Call("append", record.canonical_question,
                                [record |-> record],
                                [aborted |-> FALSE, ret |-> record], Files)
    /\ ops' = ops + 1
    /\ UNCHANGED <<kbFile, clusterFile, nluFile, insights, kb_entries,
                   cluster_map, nlu_rows, OPENAI_READY, now, pc>>

\* the history is searched for the correction an undo would take back
FindLast ==
    /\ last.op # "find_last_correction"
    /\ \E question \in {Q1, Q2} :
           last' = Call("find_last_correction", question,
                        [question |-> question],
                        [aborted |-> FALSE,
                         ret |-> find_last_correction(corrLog, question)],
                        Files)
    /\ UNCHANGED <<store, OPENAI_READY, now, ops, pc>>

NextLog == AppendRecord \/ FindLast

SpecLog == InitLog /\ [][NextLog]_vars

\* the same record was appended twice in a row
AppendedTwice ==
    /\ last.op = "append"
    /\ last.prev.op = "append"
    /\ last.prev.args.record = last.args.record

\* how often a record occurs in the history of its question
Occurrences(log, record) ==
    LET history == load_corrections_for(log, record.canonical_question)
    IN  Cardinality({i \in 1..Len(history) : history[i] = record})

CorrectedAt(log, question) ==
    {i \in 1..Len(log) :
        /\ log[i].kind = "json"
        /\ log[i].rec.canonical_question = question
        /\ log[i].rec.type = "corrected"}

\* C24: find_last_correction(q) returns the record at the greatest log
\* position among the records whose canonical_question is q and whose type
\* is corrected, and none when there is no such record; records of type
\* confirmed or undo and records of other questions, wherever they stand,
\* do not change the record returned.
C24_FindLastCorrection ==
    last.op = "find_last_correction" =>
        LET hits == CorrectedAt(last.before.corrLog, last.q)
        IN  IF hits = {} THEN last.out.ret = NoRecord
            ELSE \E i \in hits :
                    /\ \A j \in hits : j <= i
                    /\ last.out.ret = last.before.corrLog[i].rec

\* two corrected records of the question, a record of another type of the
\* same question after them, and the later corrected record is returned
C24_Witness ==
    /\ last.op = "find_last_correction"
    /\ \E i, j, k \in 1..Len(corrLog) :
          /\ i < j /\ j < k
          /\ CorrectedAt(corrLog, last.q) = {i, j}
          /\ corrLog[k].kind = "json"
          /\ corrLog[k].rec.canonical_question = last.q
          /\ corrLog[i].rec # corrLog[j].rec
          /\ last.out.ret = corrLog[j].rec

(***************************************************************************)
(* Reading and extending a log that was damaged outside the application:  *)
(* next to records it holds blank lines, lines json.loads rejects, lines   *)
(* that are JSON but no object, and lines that are no UTF-8 text.          *)
(***************************************************************************)
InitRead ==
    /\ NoStore
    /\ OPENAI_READY = FALSE
    /\ \E n \in 0..MaxLogLen :
          corrLog \in [1..n ->
                         {JsonLine(CorrectedRecord(Q1, 0)),
                          JsonLine(ConfirmedRecord(Q1, 1)),
                          JsonLine(CorrectedRecord(Q2, 0)),
                          BadLine, BlankLine,
                          [kind |-> "value"], [kind |-> "bytes"]}]

\* main(): correction_history = load_corrections_for(question)
LoadHistory ==
    /\ last = NoCall
    /\ \E question \in {Q1, Q2} :
           last' = Call("load_corrections_for", question,
                        [question |-> question],
                        IF Unreadable(corrLog) # {}
                        THEN [aborted |-> TRUE, ret |-> <<>>]
                        ELSE [aborted |-> FALSE,
                              ret |-> load_corrections_for(corrLog,
                                                           question)],
                        Files)
    /\ UNCHANGED <<store, OPENAI_READY, now, ops, pc>>

NextRead == LoadHistory \/ AppendRecord

SpecRead == InitRead /\ [][NextRead]_vars

\* the positions of the log that hold a record of the question
RecordsAt(log, question) ==
    {i \in 1..Len(log) :
        /\ log[i].kind = "json"
        /\ log[i].rec.canonical_question = question}

\* C25: a malformed line at any position of the log is skipped when the
\* history is read: load_corrections_for(q) does not fail and returns every
\* record of question q, in the order of the log.
C25_MalformedLineSkipped ==
    last.op = "load_corrections_for" =>
        LET at == RecordsAt(corrLog, last.q)
        IN  /\ ~last.out.aborted
            /\ Len(last.out.ret) = Cardinality(at)
            /\ \A i \in at :
                  last.out.ret[Cardinality({j \in at : j <= i})] =
                  corrLog[i].rec

\* C32: duplicate suppression looks at the last line of the log only: an
\* append of r adds r as a new last entry unless the last line parses to r,
\* also when r stands earlier in the log (r, then another record s, then r
\* again gives three entries) and when the last line is malformed or blank;
\* when the last line parses to r the log is left as it is.
C32_LastLineOnly ==
    last.op = "append" =>
        LET log == last.before.corrLog
            r == last.args.record
        IN  /\ ~last.out.aborted
            /\ IF log # <<>> /\ log[Len(log)] = JsonLine(r)
               THEN corrLog = log
               ELSE corrLog = Append(log, JsonLine(r))

(***************************************************************************)
(* update_insights_pair on its own: the record of c1 is there or not and   *)
(* holds up to two pairs, the record of c2 is complete, and there is no    *)
(* record of c9.                                                           *)
(***************************************************************************)
InitPatch ==
    /\ kbFile = <<>>
    /\ clusterFile = <<>>
    /\ nluFile = <<>>
    /\ corrLog = <<>>
    /\ \E exists \in BOOLEAN, n \in 0..2 :
          \E pairs \in [1..n -> {Pair(<<"r", "?">>, <<"2">>),
                                 Pair(<<"r", "?">>, <<"5">>)}] :
              insights = [FullInsights EXCEPT !["c1"] = Payload(exists, pairs)]
    /\ kb_entries = <<>>
    /\ cluster_map = <<>>
    /\ nlu_rows = <<>>
    /\ OPENAI_READY = FALSE
    /\ now = 0
    /\ ops = 0
    /\ pc = "idle"
    /\ last = NoCall

\* update_records, undo_last_correction: update_insights_pair(call_id,
\* pair_index, answer)
ApplyPatch ==
    /\ ops < MaxOps
    /\ \E call_id \in {"c1", "c2", "c9"}, pair_index \in (-1)..3,
          new_answer \in {<<"1">>, <<"5">>} :
           \E patch \in {update_insights_pair(insights, call_id, pair_index,
                                              new_answer)} :
               /\ insights' = patch.insights
               /\ last' = Call("update_insights_pair", <<>>,
                               [call_id |-> call_id,
                                pair_index |-> pair_index,
                                new_answer |-> new_answer],
                               [aborted |-> FALSE, ok |-> patch.ok], Files)
    /\ ops' = ops + 1
    /\ UNCHANGED <<kbFile, clusterFile, nluFile, corrLog, kb_entries,
                   cluster_map, nlu_rows, OPENAI_READY, now, pc>>

NextPatch == ApplyPatch

SpecPatch == InitPatch /\ [][NextPatch]_vars

\* C26: update_insights_pair is a silent no-op (no error, the records as
\* they were) when the record of call_id is missing or pair_index - 1 lies
\* outside its pair list; otherwise it replaces the answer of the pair at
\* position pair_index - 1 and leaves every other pair, the pair's
\* question, every other field of the record and every other record as
\* they were.
C26_PatchFrame ==
    last.op = "update_insights_pair" =>
        LET old == last.before.insights
            c == last.args.call_id
            idx == last.args.pair_index - 1
            missing == c \notin DOMAIN old \/ ~old[c].exists
        IN  /\ ~last.out.aborted
            /\ DOMAIN insights = DOMAIN old
            /\ \A d \in DOMAIN old \ {c} : insights[d] = old[d]
            /\ IF missing \/ idx < 0 \/ idx >= Len(old[c].pairs)
               THEN /\ ~last.out.ok
                    /\ insights = old
               ELSE /\ last.out.ok
                    /\ DOMAIN insights[c] = DOMAIN old[c]
                    /\ \A f \in DOMAIN old[c] \ {"pairs"} :
                          insights[c][f] = old[c][f]
                    /\ Len(insights[c].pairs) = Len(old[c].pairs)
                    /\ \A k \in 1..Len(old[c].pairs) :
                          IF k = idx + 1
                          THEN insights[c].pairs[k] =
                               [q |-> old[c].pairs[k].q,
                                a |-> last.args.new_answer]
                          ELSE insights[c].pairs[k] = old[c].pairs[k]

\* pair_index 0 on a record of two pairs changed nothing, then the second
\* pair of the same record was given another answer and the first was kept
C26_Witness ==
    /\ last.op = "update_insights_pair"
    /\ last.prev.op = "update_insights_pair"
    /\ last.args.call_id = last.prev.args.call_id
    /\ last.prev.args.pair_index = 0
    /\ ~last.prev.out.ok
    /\ last.out.ok
    /\ last.args.pair_index = 2
    /\ insights[last.args.call_id].pairs[2].a = last.args.new_answer
    /\ insights[last.args.call_id].pairs[2] #
       last.before.insights[last.args.call_id].pairs[2]
    /\ insights[last.args.call_id].pairs[1] =
       last.before.insights[last.args.call_id].pairs[1]

(***************************************************************************)
(* rewrite_snippet on its own: the answer, the snippet and the             *)
(* collaborator's response are drawn, the function is applied.             *)
(***************************************************************************)
RewriteAnswers == TextsUpTo({"a", "b"}, MaxTextLen)
RewriteSnippets == TextsUpTo({"a", "b"}, MaxTextLen - 1)
Replacements == {<<"c">>, <<" ", "c", "c", " ">>, <<"a">>, <<" ">>, <<>>}

\* the shapes a rewrite response takes around the replacement it holds
RewriteResponse(shape, replacement) ==
    CASE shape = "object" -> Content(<<RewObj(replacement)>>)
      [] shape = "fenced" -> Content(<<Tok("w"), Tok("ws"),
                                       RewObj(replacement), Tok("w")>>)
      [] shape = "array" -> Content(<<Tok("["), RewObj(replacement),
                                      Tok("]")>>)
      [] shape = "prose" -> Content(<<Tok("w")>>)
      [] shape = "none" -> NoContent
      [] OTHER -> Raises

RewriteShapes == {"object", "fenced", "array", "prose", "none", "raise"}

InitRewrite ==
    /\ NoStore
    /\ corrLog = <<>>
    /\ OPENAI_READY \in BOOLEAN

ApplyRewrite ==
    /\ ops = 0
    /\ \E original_answer \in RewriteAnswers, snippet \in RewriteSnippets,
          shape \in RewriteShapes, replacement \in Replacements :
           last' = Call("rewrite_snippet", <<>>,
                        [original_answer |-> original_answer,
                         snippet |-> snippet, shape |-> shape,
                         replacement |-> replacement],
                        rewrite_snippet(original_answer, snippet,
                                        OPENAI_READY,
                                        RewriteResponse(shape, replacement)),
                        Files)
    /\ ops' = ops + 1
    /\ UNCHANGED <<store, OPENAI_READY, now, pc>>

NextRewrite == ApplyRewrite

SpecRewrite == InitRewrite /\ [][NextRewrite]_vars

\* the text is the original with the span at offset i, of the snippet's
\* length, replaced by the middle
ReplacedAt(text, original, snippet, middle, i) ==
    /\ i + Len(snippet) <= Len(original)
    /\ SubSeq(original, i + 1, i + Len(snippet)) = snippet
    /\ Len(text) = Len(original) - Len(snippet) + Len(middle)
    /\ SubSeq(text, 1, i) = SubSeq(original, 1, i)
    /\ SubSeq(text, i + 1, i + Len(middle)) = middle
    /\ SubSeq(text, i + Len(middle) + 1, Len(text)) =
       SubSeq(original, i + Len(snippet) + 1, Len(original))

\* C6: when rewrite_snippet reports changed=true, the answer it returns is
\* the original with exactly the first occurrence of the snippet replaced by
\* the replacement text (as the rewriter takes it, without surrounding
\* whitespace), and the text before and after that occurrence is the
\* original's.
C6_RewriteExactness ==
    (last.op = "rewrite_snippet" /\ last.out.changed) =>
        LET original == last.args.original_answer
            snippet == last.args.snippet
        IN  \E i \in 0..Len(original) :
                /\ ReplacedAt(last.out.answer, original, snippet,
                              Strip(last.args.replacement), i)
                /\ \A j \in 0..(i - 1) :
                       SubSeq(original, j + 1, j + Len(snippet)) # snippet

\* a snippet that occurs twice, the first occurrence not at the start
C6_Witness ==
    /\ last.op = "rewrite_snippet"
    /\ last.out.changed
    /\ last.args.original_answer = <<"b", "a", "a">>
    /\ last.args.snippet = <<"a">>
    /\ last.out.answer = <<"b", "c", "c", "a">>

\* the response holds a JSON object the rewriter can read
ObjectShapes == {"object", "fenced"}

\* C23: rewrite_snippet returns in every non-success case, with the
\* original answer and changed=false: with reason "no_snippet" when the
\* snippet is empty or there are no credentials; else, when the response
\* holds a replacement, with "empty_rewrite" when the replacement is empty
\* and, when it is not, with "snippet_not_found" when the snippet does not
\* occur in the original answer.  A call of the collaborator that fails is
\* a non-success case too.
C23_RewriteFallbacks ==
    last.op = "rewrite_snippet" =>
        LET original == last.args.original_answer
            snippet == last.args.snippet
            replacement == Strip(last.args.replacement)
            asked == snippet # <<>> /\ OPENAI_READY
            success == /\ asked
                       /\ last.args.shape \in ObjectShapes
                       /\ replacement # <<>>
                       /\ Contains(original, snippet)
        IN  /\ ~last.out.raised
            /\ last.out.changed <=> success
            /\ ~success => last.out.answer = original
            /\ ~asked => last.out.reason = "no_snippet"
            /\ (asked /\ last.args.shape \in ObjectShapes) =>
                  /\ replacement = <<>> =>
                         last.out.reason = "empty_rewrite"
                  /\ (replacement # <<>> /\ ~Contains(original, snippet)) =>
                         last.out.reason = "snippet_not_found"

(***************************************************************************)
(* find_candidate_rows on its own: the clusters and the rows are drawn.    *)
(***************************************************************************)
CandCalls == {"c1", "c2", "c3"}
CandQuestions == {<<"r", "?">>, <<"o", "R", "?">>, <<"t">>, <<>>}

\* the cluster files: no cluster, the cluster of Q2 alone, or the cluster
\* of Q1 with any sources and phrases, alone or after the cluster of Q2
CandClusterFiles ==
    LET q1 == {Cluster(Q1, <<"6">>, calls, phrases) :
                 calls \in SUBSET {"c1", "c2"},
                 phrases \in SUBSET {<<"T">>, <<>>}}
        q2 == Cluster(Q2, <<"8">>, {"c3"}, {})
    IN  {<<>>, <<q2>>} \cup {<<c>> : c \in q1} \cup {<<q2, c>> : c \in q1}

CandRow(call_id, pair_index, question) ==
    [call_id |-> call_id, pair_index |-> pair_index, question |-> question,
     answer |-> <<"9">>, intent |-> "rate", needs_review |-> FALSE,
     review_notes |-> Plain(<<>>)]

InitCand ==
    /\ kbFile = <<>>
    /\ clusterFile \in CandClusterFiles
    /\ nluFile \in {<<>>} \cup {<<CandRow(c, 1, q)>> :
                                  c \in CandCalls, q \in CandQuestions}
    /\ insights = [c \in {} |-> Payload(FALSE, <<>>)]
    /\ corrLog = <<>>
    /\ kb_entries = <<>>
    /\ cluster_map = load_clusters(clusterFile)
    /\ nlu_rows = load_nlu_rows(nluFile)
    /\ OPENAI_READY = FALSE
    /\ now = 0
    /\ ops = 0
    /\ pc = "idle"
    /\ last = NoCall

\* a row is added to the export
AddRow ==
    /\ ops = 0
    /\ Len(nluFile) < MaxOps
    /\ \E c \in CandCalls, q \in CandQuestions :
           /\ nluFile' = Append(nluFile, CandRow(c, Len(nluFile) + 1, q))
           /\ nlu_rows' = load_nlu_rows(nluFile')
    /\ UNCHANGED <<kbFile, clusterFile, insights, corrLog, kb_entries,
                   cluster_map, OPENAI_READY, now, ops, pc, last>>

ApplyCandidates ==
    /\ ops = 0
    /\ \E canonical_question \in {Q1, Q2} :
           last' = Call("find_candidate_rows", canonical_question,
                        [x |-> 0],
                        find_candidate_rows(canonical_question, cluster_map,
                                            nlu_rows),
                        Files)
    /\ ops' = ops + 1
    /\ UNCHANGED <<store, OPENAI_READY, now, pc>>

NextCand == AddRow \/ ApplyCandidates

SpecCand == InitCand /\ [][NextCand]_vars

\* C7: if a cluster exists for the canonical question, every row whose
\* call_id is among the cluster's source_conversation_ids has its index in
\* the result of find_candidate_rows, whatever its question text.
C7_CandidateRecall ==
    (last.op = "find_candidate_rows" /\ ClusterAt(cluster_map, last.q) # 0) =>
        \A i \in 1..Len(nlu_rows) :
            nlu_rows[i].call_id \in
                cluster_map[ClusterAt(cluster_map, last.q)]
                    .source_conversation_ids
            => i \in Range(last.out)

\* a row of a source call whose question shares nothing with the cluster's
\* phrases is found, next to a row of another call that is not
C7_Witness ==
    /\ last.op = "find_candidate_rows"
    /\ last.q = Q1
    /\ Len(nlu_rows) = 2
    /\ nlu_rows[1].call_id = "c3"
    /\ nlu_rows[2].call_id = "c2"
    /\ nlu_rows[2].question = <<"t">>
    /\ last.out = <<2>>

\* the text holds the phrase as a substring
HasSubstring(text, phrase) ==
    \E o \in 0..(Len(text) - Len(phrase)) :
        SubSeq(text, o + 1, o + Len(phrase)) = phrase

\* the positions of the clusters of a question in the loaded clusters
ClustersOf(question) ==
    {c \in 1..Len(cluster_map) : cluster_map[c].canonical_q = question}

\* C31: find_candidate_rows returns, in ascending order and each once, the
\* positions of exactly the rows whose call_id is in the cluster's
\* source_conversation_ids or whose lower-cased question holds the
\* lower-cased canonical question or a lower-cased non-empty near_duplicate
\* as a substring; it returns the empty list when the question has no
\* cluster.
C31_CandidatesExact ==
    last.op = "find_candidate_rows" =>
        IF ClustersOf(last.q) = {} THEN last.out = <<>>
        ELSE \A c \in ClustersOf(last.q) :
                LET phrases == {last.q} \cup
                               (cluster_map[c].near_duplicates \ {<<>>})
                    Wanted(i) ==
                        \/ nlu_rows[i].call_id \in
                               cluster_map[c].source_conversation_ids
                        \/ \E p \in phrases :
                               HasSubstring(Lower(nlu_rows[i].question),
                                            Lower(p))
                IN  /\ \A k \in 1..(Len(last.out) - 1) :
                          last.out[k] < last.out[k + 1]
                    /\ Range(last.out) =
                       {i \in 1..Len(nlu_rows) : Wanted(i)}

\* the cluster has an empty and a non-empty near_duplicate and no source
\* call: the row whose question holds the phrase in another case is found,
\* the row with an empty question is not
C31_Witness ==
    /\ last.op = "find_candidate_rows"
    /\ last.q = Q1
    /\ \E c \in ClustersOf(Q1) :
          /\ cluster_map[c].source_conversation_ids = {}
          /\ cluster_map[c].near_duplicates = {<<"T">>, <<>>}
    /\ Len(nlu_rows) = 2
    /\ nlu_rows[1].question = <<"t">>
    /\ nlu_rows[2].question = <<>>
    /\ last.out = <<1>>

(***************************************************************************)
(* detect_inconsistencies on its own: the export holds one row, one full   *)
(* batch or more than one batch of rows, and the collaborator answers each *)
(* batch in one of the ways a response may take.                           *)
(***************************************************************************)
DetectSizes == {1, DETECTION_BATCH_SIZE, DETECTION_BATCH_SIZE + ExtraBatchRows}

DetectRows(n) == [i \in 1..n |-> CandRow("c1", i, <<"r", "?">>)]

\* the rows as update_records hands them to the detector
BatchRows(rows) ==
    [i \in 1..Len(rows) |->
        [idx |-> i, question |-> rows[i].question, answer |-> rows[i].answer]]

DetectShapes ==
    {"flags", "clears", "fenced", "partial", "foreign", "unknown", "object",
     "prose", "blank", "none", "numbers", "raise"}

\* the response to the request for a chunk, of n rows in all
DetectResponse(shape, chunk, n) ==
    LET own == {chunk[j].idx : j \in 1..Len(chunk)}
        flags == DetArray(chunk, own, <<"9">>)
        other == (1..n) \ own
    IN  CASE shape = "flags" -> flags
          [] shape = "clears" -> DetArray(chunk, {}, <<>>)
          [] shape = "fenced" ->
                Content(<<Tok("w"), Tok("ws")>> \o flags.toks \o <<Tok("w")>>)
          [] shape = "partial" ->
                Content(<<Tok("["),
                          DetItem(chunk[1].idx, TRUE, "conflict", <<"9">>),
                          Tok("]")>>)
          [] shape = "foreign" ->
                Content(<<Tok("[")>>
                        \o (IF other = {} THEN <<>>
                            ELSE <<DetItem(Min(other), TRUE, "conflict",
                                           <<"9">>)>>)
                        \o <<Tok("]")>>)
          [] shape = "unknown" ->
                Content(<<Tok("["), DetItem(0, TRUE, "conflict", <<"9">>),
                          DetItem(NoId, TRUE, "conflict", <<"9">>),
                          Tok("]")>>)
          [] shape = "object" ->
                Content(<<DetItem(chunk[1].idx, TRUE, "conflict", <<"9">>)>>)
          [] shape = "prose" -> Content(<<Tok("w"), Tok("ws"), Tok("w")>>)
          [] shape = "blank" -> Content(<<Tok("ws")>>)
          [] shape = "none" -> NoContent
          [] shape = "numbers" -> Content(<<Tok("["), Tok("num"), Tok("]")>>)
          [] OTHER -> Raises

InitDetect ==
    /\ kbFile = <<>>
    /\ clusterFile = <<>>
    /\ nluFile \in {DetectRows(n) : n \in DetectSizes}
    /\ insights = [c \in {} |-> Payload(FALSE, <<>>)]
    /\ corrLog = <<>>
    /\ kb_entries = <<>>
    /\ cluster_map = <<>>
    /\ nlu_rows = load_nlu_rows(nluFile)
    /\ OPENAI_READY \in BOOLEAN
    /\ now = 0
    /\ ops = 0
    /\ pc = "idle"
    /\ last = NoCall

ApplyDetect ==
    /\ ops = 0
    /\ \E shapes \in [1..Len(Batches(nlu_rows)) -> DetectShapes] :
           LET rows == BatchRows(nlu_rows)
               chunks == chunk_list(rows, DETECTION_BATCH_SIZE)
               responses == [k \in 1..Len(chunks) |->
                               DetectResponse(shapes[k], chunks[k],
                                              Len(rows))]
           IN  last' = Call("detect_inconsistencies", <<>>,
                            [rows |-> rows, shapes |-> shapes,
                             responses |-> responses],
                            detect_inconsistencies(rows, OPENAI_READY,
                                                   responses),
                            Files)
    /\ ops' = ops + 1
    /\ UNCHANGED <<store, OPENAI_READY, now, pc>>

NextDetect == ApplyDetect

SpecDetect == InitDetect /\ [][NextDetect]_vars

\* the detector returned (it did not raise)
Detected == last.op = "detect_inconsistencies" /\ ~last.out.raised

\* C9: without credentials detect_inconsistencies returns for every input
\* row the default decision (needs_edit=false, "no_change_needed", empty
\* snippet) and sends no request to the collaborator.
C9_UnavailableDefaults ==
    (last.op = "detect_inconsistencies" /\ ~OPENAI_READY) =>
        /\ ~last.out.raised
        /\ DOMAIN last.out.results = 1..Len(last.args.rows)
        /\ \A i \in DOMAIN last.out.results :
               last.out.results[i] = DefaultDecision
        /\ get_openai_client(OPENAI_READY) # "None" => last.out.calls = 0

\* the response for batch k does not parse into a JSON array
Unparsed(k) ==
    extract_json_structure(
        call_openai(OPENAI_READY, last.args.responses[k])).kind # "list"

RowsOfBatch(k) ==
    LET chunk == chunk_list(last.args.rows, DETECTION_BATCH_SIZE)[k]
    IN  {chunk[j].idx : j \in 1..Len(chunk)}

\* what the detector returns when batch k is answered by an empty array
WithoutFailure(k) ==
    detect_inconsistencies(
        last.args.rows, OPENAI_READY,
        [last.args.responses EXCEPT
            ![k] = Content(<<Tok("["), Tok("]")>>)]).results

\* C10: if the response for one batch does not parse into a JSON array,
\* every row of that batch gets needs_edit=false with reason "parse_error",
\* and the decisions of the rows of all other batches are as they are
\* without that failure.
C10_BatchParseFallback ==
    Detected =>
        \A k \in 1..Len(last.args.responses) :
            Unparsed(k) =>
                /\ \A i \in RowsOfBatch(k) :
                       last.out.results[i] = ParseErrorDecision
                /\ \A i \in DOMAIN last.out.results \ RowsOfBatch(k) :
                       last.out.results[i] = WithoutFailure(k)[i]

\* the ids the parsed response for batch k names
NamedBy(k) ==
    LET parsed == extract_json_structure(
                      call_openai(OPENAI_READY, last.args.responses[k]))
    IN  {parsed.items[j].id : j \in 1..Len(parsed.items)}

\* C35: the response for one batch changes the decision only of rows of
\* that batch: the decisions of all other rows are as they are when that
\* batch is answered by an empty array (an item naming a row of another
\* batch, or no row, is ignored), and a row its own batch's parsed response
\* does not name keeps needs_edit=false, reason "no_change_needed".
C35_BatchIsolation ==
    Detected =>
        \A k \in 1..Len(last.args.responses) :
            ~Unparsed(k) =>
                /\ \A i \in DOMAIN last.out.results \ RowsOfBatch(k) :
                       last.out.results[i] = WithoutFailure(k)[i]
                /\ \A i \in RowsOfBatch(k) \ NamedBy(k) :
                       last.out.results[i] = DefaultDecision



(***************************************************************************)
(* One correct operation on a store whose first question has more          *)
(* candidate rows than the rewrite budget.  The export is as               *)
(* `make nlu-export` built it, or as an undo whose regeneration failed     *)
(* left it: every row marked for review, with the undo note.               *)
(***************************************************************************)
BudgetRows == MAX_REWRITES + ExtraRows

\* the per-call records: one call with BudgetRows pairs, each answer holding
\* the snippet, or all but the second
BudgetInsights ==
    {[c \in CallIds |->
        IF c = "c1"
        THEN Payload(TRUE, [i \in 1..BudgetRows |->
                              Pair(<<"r", "?">>,
                                   IF i = odd THEN <<"9">> ELSE <<"x", "2">>)])
        ELSE Payload(FALSE, <<>>)] : odd \in {0, 2}}

InitBudget ==
    /\ kbFile = InitKb
    /\ clusterFile = InitClusters
    /\ insights \in BudgetInsights
    /\ \E stale \in BOOLEAN :
          nluFile = [i \in 1..Len(export_pairs(insights)) |->
                       IF stale
                       THEN [export_pairs(insights)[i] EXCEPT
                               !.needs_review = TRUE,
                               !.review_notes = Note("rollback_note", 0,
                                                     "ann", <<>>)]
                       ELSE export_pairs(insights)[i]]
    /\ corrLog = <<>>
    /\ kb_entries = load_kb(kbFile)
    /\ cluster_map = load_clusters(clusterFile)
    /\ nlu_rows = load_nlu_rows(nluFile)
    /\ OPENAI_READY \in BOOLEAN
    /\ now = 0
    /\ ops = 0
    /\ pc = "idle"
    /\ last = NoCall

CorrectOnce == ops = 0 /\ Correct

NextBudget == CorrectOnce

SpecBudget == InitBudget /\ [][NextBudget]_vars

\* the positions at which a row list differs in its answer from another
ChangedRows(before, after) ==
    {i \in 1..Len(before) :
        i > Len(after) \/ after[i].answer # before[i].answer}

\* C3: in a single correct operation, whatever the number of candidate rows
\* and whatever the detector and the rewriter return, at most MAX_REWRITES
\* rows have their answer changed.
C3_BudgetBound ==
    last.op = "correct" =>
        /\ Cardinality(ChangedRows(last.before.nluFile, nlu_rows))
              <= MAX_REWRITES
        /\ Cardinality(ChangedRows(last.before.nluFile, nluFile))
              <= MAX_REWRITES
        /\ ~last.out.aborted =>
              Len(last.out.ret.updated_rows) <= MAX_REWRITES

\* more candidate rows than the budget, all flagged, all holding the
\* snippet: the budget is used up and the last row is skipped
C3_Witness ==
    /\ last.op = "correct"
    /\ ~last.out.aborted
    /\ Len(last.args.selected) > MAX_REWRITES
    /\ Cardinality(ChangedRows(last.before.nluFile, nluFile)) = MAX_REWRITES
    /\ last.out.ret.row_diffs[Len(last.args.selected)].reason
          = "limit_reached"

\* a completed correct in which the detector flagged more rows than the
\* budget allows
OverBudget ==
    /\ last.op = "correct"
    /\ ~last.out.aborted
    /\ Cardinality({i \in DOMAIN last.out.detection :
                       last.out.detection[i].needs_edit}) > MAX_REWRITES

\* the detector flagged the k-th candidate row
Flagged(k) == last.out.detection[last.args.selected[k]].needs_edit

\* the k-th candidate row is in memory as it was in the export before
Unmodified(k) ==
    nlu_rows[last.args.selected[k]] =
        last.before.nluFile[last.args.selected[k]]

\* C4 as stated: when the detector flags more than MAX_REWRITES candidate
\* rows, every flagged row that is not mutated carries reason
\* "limit_reached" in row_diffs and is left unmodified.
C4_UnmutatedAreLimitReached ==
    OverBudget =>
        LET diffs == last.out.ret.row_diffs
        IN  /\ Len(diffs) = Len(last.args.selected)
            /\ \A k \in 1..Len(diffs) :
                   (Flagged(k) /\ ~diffs[k].changed) =>
                       diffs[k].reason = "limit_reached" /\ Unmodified(k)

\* the rewrites that succeeded before the k-th candidate row was reached
FixedBefore(k) ==
    Cardinality({j \in 1..(k - 1) :
                    /\ Flagged(j)
                    /\ last.out.ret.row_diffs[j].reason = "fixed"})

RewriterReasons ==
    {"no_snippet", "parse_error_rewrite", "empty_rewrite",
     "snippet_not_found", "fixed"}

\* C4 as amended: when the detector flags more than MAX_REWRITES candidate
\* rows, every flagged row reached after MAX_REWRITES rewrites have
\* succeeded carries reason "limit_reached" and is left unmodified; a
\* flagged row reached before that and not mutated carries the reason the
\* rewriter gave and is left unmodified too.
C4_SkippedAfterBudget ==
    OverBudget =>
        LET diffs == last.out.ret.row_diffs
        IN  /\ Len(diffs) = Len(last.args.selected)
            /\ \A k \in 1..Len(diffs) :
                   (Flagged(k) /\ ~diffs[k].changed) =>
                       /\ Unmodified(k)
                       /\ FixedBefore(k) >= MAX_REWRITES =>
                             diffs[k].reason = "limit_reached"
                       /\ FixedBefore(k) < MAX_REWRITES =>
                             diffs[k].reason \in RewriterReasons
            /\ \A k \in 1..Len(diffs) :
                   (Flagged(k) /\ FixedBefore(k) >= MAX_REWRITES) =>
                       ~diffs[k].changed

\* the k-th candidate row as it was in the export before the operation
CandidateBefore(k) == last.before.nluFile[last.args.selected[k]]

\* C16: the corrected record's row_diffs holds exactly one entry for every
\* candidate row passed to correct, in candidate order, including the rows
\* the detector did not flag and the rows skipped because the budget was
\* spent; each entry with changed=false has new_answer equal to old_answer.
C16_RowDiffsComplete ==
    (last.op = "correct" /\ ~last.out.aborted) =>
        LET diffs == last.out.ret.row_diffs
        IN  /\ Len(diffs) = Len(last.args.selected)
            /\ \A k \in 1..Len(diffs) :
                   /\ diffs[k].call_id = CandidateBefore(k).call_id
                   /\ diffs[k].pair_index = CandidateBefore(k).pair_index
                   /\ diffs[k].question = CandidateBefore(k).question
                   /\ diffs[k].old_answer = CandidateBefore(k).answer
                   /\ ~diffs[k].changed =>
                         diffs[k].new_answer = diffs[k].old_answer
                   /\ diffs[k].changed =>
                         /\ diffs[k].new_answer # diffs[k].old_answer
                         /\ diffs[k].new_answer =
                                nlu_rows[last.args.selected[k]].answer

\* one operation with a row the detector did not flag, rows that were
\* rewritten and a row skipped because the budget was spent
C16_Witness ==
    /\ last.op = "correct"
    /\ ~last.out.aborted
    /\ Len(last.out.ret.row_diffs) = BudgetRows
    /\ \E i, j, k \in 1..BudgetRows :
           /\ ~Flagged(i)
           /\ last.out.ret.row_diffs[i].reason = "ok"
           /\ last.out.ret.row_diffs[j].changed
           /\ last.out.ret.row_diffs[k].reason = "limit_reached"
           /\ CandidateBefore(k).pair_index = k

\* C17: the corrected record stores previous_kb_answer equal to the KB
\* entry's best_answer immediately before the operation, and previous_rows
\* holds an entry for every candidate row passed to correct, with that
\* row's answer before any rewriting.
C17_PreviousSnapshot ==
    (last.op = "correct" /\ ~last.out.aborted) =>
        LET previous_rows == last.out.ret.previous_rows
        IN  /\ last.out.ret.previous_kb_answer =
                   last.before.kbFile[last.args.kb_index].best_answer
            /\ Len(previous_rows) = Len(last.args.selected)
            /\ \A k \in 1..Len(previous_rows) :
                   previous_rows[k] =
                       [call_id |-> CandidateBefore(k).call_id,
                        pair_index |-> CandidateBefore(k).pair_index,
                        previous_answer |-> CandidateBefore(k).answer]

\* all rows flagged and the budget spent: the row after it is skipped
C4_Witness ==
    /\ OverBudget
    /\ \E k \in 1..Len(last.args.selected) :
           /\ Flagged(k)
           /\ FixedBefore(k) = MAX_REWRITES
           /\ last.out.ret.row_diffs[k].reason = "limit_reached"
           /\ Unmodified(k)

(***************************************************************************)
(* Undo after two corrections of the first question: the store is the one  *)
(* two completed correct operations in a row leave (the answer A of the    *)
(* KB replaced by B, then B by C), and undo operations follow.             *)
(***************************************************************************)
\* main() started anew on the files a call left
Reloaded(st) ==
    [st EXCEPT !.kb_entries = load_kb(st.kbFile),
               !.cluster_map = load_clusters(st.clusterFile),
               !.nlu_rows = load_nlu_rows(st.nluFile)]

\* the store of Init, with the per-call records given
FreshStore(ins) ==
    [kb_entries |-> InitKb, cluster_map |-> load_clusters(InitClusters),
     nlu_rows |-> export_pairs(FullInsights), kbFile |-> InitKb,
     clusterFile |-> InitClusters, nluFile |-> export_pairs(FullInsights),
     insights |-> ins, corrLog |-> <<>>]

\* the completed correct operations of the first question on the files of
\* a store, at minute 0, one for each plan of the collaborator
Corrections(st, new_answer, ready, makeOk) ==
    LET selected == find_candidate_rows(Q1, load_clusters(st.clusterFile),
                                        load_nlu_rows(st.nluFile))
        all == {update_records(Reloaded(st), 1, new_answer, "ann",
                               <<"k", " ">>, selected, 0, ready,
                               ScriptOf(plan, selected), makeOk) :
                    plan \in Plans(selected, ready)}
    IN  {result \in all : ~result.out.aborted}

\* the stores two completed corrections in a row leave
TwiceCorrected(ins, ready) ==
    LET firsts == UNION {Corrections(FreshStore(ins), b, ready, makeOk) :
                            b \in NewAnswers, makeOk \in BOOLEAN}
        seconds == UNION {Corrections(first.st, c, ready, makeOk) :
                            first \in firsts, c \in NewAnswers,
                            makeOk \in BOOLEAN}
    IN  {second.st : second \in seconds}

InitChain ==
    /\ OPENAI_READY \in BOOLEAN
    /\ \E ins \in InitInsights :
           \E st \in TwiceCorrected(ins, OPENAI_READY) :
               /\ kbFile = st.kbFile
               /\ clusterFile = st.clusterFile
               /\ nluFile = st.nluFile
               /\ insights = st.insights
               /\ corrLog = st.corrLog
               /\ kb_entries = st.kb_entries
               /\ cluster_map = st.cluster_map
               /\ nlu_rows = st.nlu_rows
    /\ now = 0
    /\ ops = 0
    /\ pc = "idle"
    /\ last = NoCall

NextChain == Undo \/ Tick

SpecChain == InitChain /\ [][NextChain]_vars

\* the two corrections as the log holds them: A to B, then B to C.  The
\* second record is missing when it was identical to the first (B and C
\* are A again, and no row changed).
ChainA == corrLog[1].rec.previous_kb_answer
ChainB == corrLog[1].rec.corrected_answer
SecondLogged == Len(corrLog) >= 2 /\ corrLog[2].rec.type = "corrected"

\* an undo of the first question has completed since the two corrections
UndoneSince ==
    \E i \in 2..Len(corrLog) :
        corrLog[i].rec.type = "undo" /\ corrLog[i].rec.canonical_question = Q1

\* C12: after two corrections of the same question (A to B, then B to C),
\* any number of consecutive undo operations on that question restore the
\* KB answer to B, the answer preceding the most recent corrected record,
\* and never to the earlier correction's previous answer A.
C12_UndoSingleLevel ==
    /\ corrLog[1].rec.type = "corrected"
    /\ SecondLogged => corrLog[2].rec.previous_kb_answer = ChainB
    /\ ~SecondLogged => ChainA = ChainB
    /\ UndoneSince =>
          /\ KbAnswerOf(kbFile, Q1) = ChainB
          /\ KbAnswerOf(kb_entries, Q1) = ChainB
          /\ ChainA # ChainB => KbAnswerOf(kbFile, Q1) # ChainA
    /\ (last.op = "undo" /\ last.q = Q1) => ~last.out.aborted /\ UndoneSince

\* two undo operations in a row after A to B to C, all three different
C12_Witness ==
    /\ last.op = "undo"
    /\ last.prev.op = "undo"
    /\ last.q = Q1
    /\ last.prev.q = Q1
    /\ SecondLogged
    /\ ChainA # ChainB
    /\ ChainB # corrLog[2].rec.corrected_answer
    /\ ChainA # corrLog[2].rec.corrected_answer
    /\ KbAnswerOf(last.prev.before.kbFile, Q1) = corrLog[2].rec.corrected_answer
    /\ KbAnswerOf(last.before.kbFile, Q1) = ChainB
    /\ KbAnswerOf(kbFile, Q1) = ChainB

(***************************************************************************)
(* The save functions step by step, next to a concurrent reader (another   *)
(* session of the application loading the collections).  save_kb and       *)
(* save_clusters call Path.write_text and save_nlu_rows opens the file     *)
(* with mode "w": the file is truncated when it is opened, the contents    *)
(* reach it as the buffer is flushed, and it is closed at the end.  The    *)
(* collections in memory are the ones a correct operation saves.           *)
(***************************************************************************)
SaveFiles == {"kb", "clusters", "rows"}

\* the contents of the file behind a collection
SavedFile(f) ==
    CASE f = "kb" -> kbFile
      [] f = "clusters" -> clusterFile
      [] OTHER -> nluFile

\* what the save function of a collection writes
Collection(f) ==
    CASE f = "kb" -> save_kb(kb_entries)
      [] f = "clusters" -> save_clusters(cluster_map)
      [] OTHER -> save_nlu_rows(nlu_rows)

\* the file of a collection gets new contents, the other files keep theirs
WriteFile(f, contents) ==
    /\ kbFile' = IF f = "kb" THEN contents ELSE kbFile
    /\ clusterFile' = IF f = "clusters" THEN contents ELSE clusterFile
    /\ nluFile' = IF f = "rows" THEN contents ELSE nluFile
    /\ UNCHANGED <<corrLog, insights, kb_entries, cluster_map, nlu_rows,
                   OPENAI_READY, now, ops, last>>

\* open(path, "w"): the file is truncated
SaveOpen ==
    /\ pc = "idle"
    /\ \E f \in SaveFiles :
           /\ pc' = f
           /\ WriteFile(f, <<>>)

\* the buffer is flushed: more of the contents reach the file
SaveWrite ==
    /\ pc # "idle"
    /\ \E n \in (Len(SavedFile(pc)) + 1)..Len(Collection(pc)) :
           WriteFile(pc, SubSeq(Collection(pc), 1, n))
    /\ pc' = pc

\* everything is written and the file is closed
SaveClose ==
    /\ pc # "idle"
    /\ SavedFile(pc) = Collection(pc)
    /\ pc' = "idle"
    /\ UNCHANGED <<store, OPENAI_READY, now, ops, last>>

\* a concurrent reader loads a collection: it sees the file as it is
ReadFile ==
    /\ \E f \in SaveFiles :
           last' = [op |-> "load", q |-> <<>>, args |-> [file |-> f],
                    out |-> [seen |-> SavedFile(f)], before |-> Files,
                    prev |-> NoCall]
    /\ UNCHANGED <<store, OPENAI_READY, now, ops, pc>>

InitSave ==
    /\ OPENAI_READY \in BOOLEAN
    /\ \E ins \in InitInsights :
           \E result \in UNION {Corrections(FreshStore(ins), b,
                                            OPENAI_READY, TRUE) :
                                    b \in NewAnswers} :
               /\ kbFile = FreshStore(ins).kbFile
               /\ clusterFile = FreshStore(ins).clusterFile
               /\ nluFile = FreshStore(ins).nluFile
               /\ insights = result.st.insights
               /\ corrLog = <<>>
               /\ kb_entries = result.st.kb_entries
               /\ cluster_map = result.st.cluster_map
               /\ nlu_rows = result.st.nlu_rows
    /\ now = 0
    /\ ops = 0
    /\ pc = "idle"
    /\ last = NoCall

NextSave == SaveOpen \/ SaveWrite \/ SaveClose \/ ReadFile

SpecSave == InitSave /\ [][NextSave]_vars

\* the contents of a file before the first save
OldContents(f) ==
    CASE f = "kb" -> InitKb
      [] f = "clusters" -> InitClusters
      [] OTHER -> export_pairs(FullInsights)

\* C20: while save_kb, save_clusters or save_nlu_rows replaces a
\* collection's file, a concurrent reader of that file observes either the
\* complete old contents or the complete new contents, never an empty or
\* partially written file.
C20_AtomicSave ==
    last.op = "load" =>
        \/ last.out.seen = OldContents(last.args.file)
        \/ last.out.seen = Collection(last.args.file)

\* the candidate rows of the operation's question in the store before it
CandidatesBefore ==
    Range(find_candidate_rows(last.q, load_clusters(last.before.clusterFile),
                              load_nlu_rows(last.before.nluFile)))

\* what the rewriter returned for row i of the store before the operation
RewriteOf(i) ==
    rewrite_snippet(last.before.nluFile[i].answer,
                    last.out.detection[i].snippet, OPENAI_READY,
                    ScriptOf(last.args.plan, last.args.selected).rew[i])

AuditNote ==
    Note("fixed_note", last.args.at, last.args.reviewer,
         Strip(last.args.comment))

C38_BudgetCountsMutations ==
    (last.op = "correct" /\ ~last.out.aborted) =>
        /\ last.out.rewrites_done = Len(last.out.ret.updated_rows)
        /\ last.out.rewrites_done =
               Cardinality(ChangedRows(last.before.nluFile, nlu_rows))

(***************************************************************************)
(* Several sessions of the application on one store.  Each run of main()   *)
(* loads the three collections whole; the operation a session then submits *)
(* works on the session's copies and saves them whole.  Here kb_entries,   *)
(* cluster_map and nlu_rows hold one copy per session, and pc[s] says      *)
(* whether session s has no copy ("idle"), a copy of the files as they are *)
(* ("loaded"), or a copy taken before another session saved ("stale").     *)
(***************************************************************************)
Sessions == 1..NumSessions

InitWriters ==
    /\ kbFile = InitKb
    /\ clusterFile = InitClusters
    /\ nluFile = export_pairs(FullInsights)
    /\ insights = FullInsights
    /\ corrLog = <<>>
    /\ kb_entries = [s \in Sessions |-> <<>>]
    /\ cluster_map = [s \in Sessions |-> <<>>]
    /\ nlu_rows = [s \in Sessions |-> <<>>]
    /\ OPENAI_READY = FALSE
    /\ now = 0
    /\ ops = 0
    /\ pc = [s \in Sessions |-> "idle"]
    /\ last = NoCall

\* A mutant of SessionLoad: the session keeps the copies of its first run.
SessionLoadOnce(s) ==
    /\ pc[s] \in {"idle", "stale"}
    /\ kb_entries' = [kb_entries EXCEPT ![s] =
                        IF @ = <<>> THEN load_kb(kbFile) ELSE @]
    /\ cluster_map' = [cluster_map EXCEPT ![s] = load_clusters(clusterFile)]
    /\ nlu_rows' = [nlu_rows EXCEPT ![s] = load_nlu_rows(nluFile)]
    /\ pc' = [pc EXCEPT ![s] = "loaded"]
    /\ UNCHANGED <<kbFile, clusterFile, nluFile, insights, corrLog,
                   OPENAI_READY, now, ops, last>>

\* main(): kb_entries = load_kb(); cluster_map = load_clusters();
\* nlu_rows = load_nlu_rows()
SessionLoad(s) ==
    /\ pc[s] \in {"idle", "stale"}
    /\ kb_entries' = [kb_entries EXCEPT ![s] = load_kb(kbFile)]
    /\ cluster_map' = [cluster_map EXCEPT ![s] = load_clusters(clusterFile)]
    /\ nlu_rows' = [nlu_rows EXCEPT ![s] = load_nlu_rows(nluFile)]
    /\ pc' = [pc EXCEPT ![s] = "loaded"]
    /\ UNCHANGED <<kbFile, clusterFile, nluFile, insights, corrLog,
                   OPENAI_READY, now, ops, last>>

\* the collections of session s next to the files as they are now
SessionStore(s) ==
    [kb_entries |-> kb_entries[s], cluster_map |-> cluster_map[s],
     nlu_rows |-> nlu_rows[s],
     kbFile |-> kbFile, clusterFile |-> clusterFile, nluFile |-> nluFile,
     insights |-> insights, corrLog |-> corrLog]

\* the operation of session s ends: the files are as it saved them, the
\* session's run is over, and the copies other sessions hold are stale
SessionLeave(s, op, kb_index, result) ==
    /\ kbFile' = result.st.kbFile
    /\ clusterFile' = result.st.clusterFile
    /\ nluFile' = result.st.nluFile
    /\ insights' = result.st.insights
    /\ corrLog' = result.st.corrLog
    /\ kb_entries' = [kb_entries EXCEPT ![s] = result.st.kb_entries]
    /\ cluster_map' = [cluster_map EXCEPT ![s] = result.st.cluster_map]
    /\ nlu_rows' = [nlu_rows EXCEPT ![s] = result.st.nlu_rows]
    /\ pc' = [t \in Sessions |->
                IF t = s THEN "idle"
                ELSE IF pc[t] = "loaded" THEN "stale" ELSE pc[t]]
    /\ last' = Call(op, kb_entries[s][kb_index].canonical_question,
                    [session |-> s, kb_index |-> kb_index,
                     fresh |-> pc[s] = "loaded"],
                    result.out, Files)
    /\ ops' = ops + 1
    /\ UNCHANGED <<OPENAI_READY, now>>

\* the confirm button of a session
SessionConfirm(s) ==
    /\ ops < MaxOps
    /\ pc[s] \in {"loaded", "stale"}
    /\ \E kb_index \in 1..Len(kb_entries[s]), reviewer \in Reviewers,
          comment \in Comments :
           SessionLeave(s, "confirm", kb_index,
                        confirm_entry(SessionStore(s), kb_index, reviewer,
                                      comment, now))

\* the correct button of a session
SessionCorrect(s) ==
    /\ ops < MaxOps
    /\ pc[s] \in {"loaded", "stale"}
    /\ \E kb_index \in 1..Len(kb_entries[s]), new_answer \in NewAnswers,
          reviewer \in Reviewers, comment \in Comments :
           \E selected \in {find_candidate_rows(
                               kb_entries[s][kb_index].canonical_question,
                               cluster_map[s], nlu_rows[s])} :
               SessionLeave(s, "correct", kb_index,
                            update_records(SessionStore(s), kb_index,
                                           new_answer, reviewer, comment,
                                           selected, now, OPENAI_READY,
                                           ScriptOf(Plan({}, <<>>, "none", 0,
                                                         "none", 0),
                                                    selected),
                                           TRUE))

NextWriters ==
    \E s \in Sessions : SessionLoad(s) \/ SessionConfirm(s) \/ SessionCorrect(s)

SpecWriters == InitWriters /\ [][NextWriters]_vars

CorrectionsOf(st, kb_index, new_answer, ready, makeOk) ==
    LET selected == find_candidate_rows(
                        st.kbFile[kb_index].canonical_question,
                        load_clusters(st.clusterFile),
                        load_nlu_rows(st.nluFile))
        all == {update_records(Reloaded(st), kb_index, new_answer, "ann",
                               <<"k", " ">>, selected, 0, ready,
                               ScriptOf(plan, selected), makeOk) :
                    plan \in Plans(selected, ready)}
    IN  {result \in all : ~result.out.aborted}

\* the stores a completed correction of the first question and then one of
\* the second leave
BothCorrected(ins, ready) ==
    LET firsts == UNION {CorrectionsOf(FreshStore(ins), 1, b, ready, makeOk) :
                            b \in NewAnswers, makeOk \in BOOLEAN}
        seconds == UNION {CorrectionsOf(first.st, 2, c, ready, makeOk) :
                            first \in firsts, c \in NewAnswers,
                            makeOk \in BOOLEAN}
    IN  {second.st : second \in seconds}

InitOverlap ==
    /\ OPENAI_READY \in BOOLEAN
    /\ \E ins \in InitInsights :
           \E st \in BothCorrected(ins, OPENAI_READY) :
               /\ kbFile = st.kbFile
               /\ clusterFile = st.clusterFile
               /\ nluFile = st.nluFile
               /\ insights = st.insights
               /\ corrLog = st.corrLog
               /\ kb_entries = st.kb_entries
               /\ cluster_map = st.cluster_map
               /\ nlu_rows = st.nlu_rows
    /\ now = 0
    /\ ops = 0
    /\ pc = "idle"
    /\ last = NoCall

NextOverlap == Undo \/ Tick

SpecOverlap == InitOverlap /\ [][NextOverlap]_vars

\* the rows the correction of the second question rewrote, as its record
\* names them, with the answers it gave them
RewrittenBySecond ==
    LET D == corrLog[2].rec.row_diffs
    IN  {[call_id |-> D[k].call_id, pair_index |-> D[k].pair_index,
          answer |-> D[k].new_answer] : k \in {j \in 1..Len(D) : D[j].changed}}

\* C36: after correct(Q1), then correct(Q2) on a question whose candidate
\* rows overlap those of Q1, then undo(Q1), every row rewritten by
\* correct(Q2) still holds the answer correct(Q2) gave it, and the KB
\* entry and the cluster of Q2 are as they were before the undo.
C36_UndoConfined ==
    (last.op = "undo" /\ last.q = Q1 /\ ~last.out.aborted) =>
        /\ \A d \in RewrittenBySecond :
              \A i \in 1..Len(nlu_rows) :
                  (nlu_rows[i].call_id = d.call_id
                       /\ nlu_rows[i].pair_index = d.pair_index)
                      => nlu_rows[i].answer = d.answer
        /\ kbFile[2] = last.before.kbFile[2]
        /\ clusterFile[2] = last.before.clusterFile[2]

(***************************************************************************)
(* The job runner of the demo server (src/demo_ui/server.py).  Handler     *)
(* threads serve POST /api/run and POST /api/stop, one worker thread runs  *)
(* the queued commands.  The server's objects are kept in the record       *)
(* `last`: runs is StateStore.runs, queue and processes are the Runner's;  *)
(* enqueued, started and history record the order of the queue.put calls,  *)
(* the order in which the worker set runs to "running", and the statuses   *)
(* each Run was given.  pc holds the position of the worker, the run_id it *)
(* works on, and for each handler the run it created and has not yet       *)
(* enqueued (0 when it serves no request).  The state directory is empty   *)
(* when the server starts.  A step is one lock-protected section or one    *)
(* queue operation.                                                        *)
(***************************************************************************)
Handlers == 1..NumHandlers

runs == last.runs
queue == last.queue
processes == last.processes

\* Run(id=run_id, ..., status=status); return_code is <<>> for None
Run(id, status, return_code) ==
    [id |-> id, status |-> status, return_code |-> return_code]

InitRunner ==
    /\ kbFile = <<>>
    /\ clusterFile = <<>>
    /\ nluFile = <<>>
    /\ insights = [c \in {} |-> Payload(FALSE, <<>>)]
    /\ corrLog = <<>>
    /\ kb_entries = <<>>
    /\ cluster_map = <<>>
    /\ nlu_rows = <<>>
    /\ OPENAI_READY = FALSE
    /\ now = 0
    /\ ops = 0
    /\ pc = [worker |-> "get", run_id |-> 0, handler |-> [t \in Handlers |-> 0]]
    /\ last = [op |-> "runner", runs |-> <<>>, queue |-> <<>>,
               processes |-> [i \in {} |-> "live"], enqueued |-> <<>>,
               started |-> <<>>, history |-> <<>>]

\* do_POST /api/run with a known session and a whitelisted task, up to
\* run = STORE.create_run(..): the Run is stored with status "queued"
PostRun(t) ==
    /\ ops < MaxRuns
    /\ pc.handler[t] = 0
    /\ last' = [last EXCEPT
                  !.runs = Append(@, Run(ops + 1, "queued", <<>>)),
                  !.history = Append(@, <<"queued">>)]
    /\ pc' = [pc EXCEPT !.handler[t] = ops + 1]
    /\ ops' = ops + 1
    /\ UNCHANGED <<store, OPENAI_READY, now>>

\* RUNNER.enqueue(run.id): self.queue.put(run_id); the response is sent
Enqueue(t) ==
    /\ pc.handler[t] # 0
    /\ last' = [last EXCEPT !.queue = Append(@, pc.handler[t]),
                            !.enqueued = Append(@, pc.handler[t])]
    /\ pc' = [pc EXCEPT !.handler[t] = 0]
    /\ UNCHANGED <<store, OPENAI_READY, now, ops>>

\* do_POST /api/stop: RUNNER.stop(run_id) finds the process and terminates it
StopRun(t) ==
    /\ pc.handler[t] = 0
    /\ \E run_id \in DOMAIN processes :
           /\ processes[run_id] = "live"
           /\ last' = [last EXCEPT !.processes[run_id] = "terminated"]
    /\ UNCHANGED <<store, OPENAI_READY, now, ops, pc>>

\* A mutant of WorkerGet: the worker takes the run that was queued last.
WorkerGetNewest ==
    /\ pc.worker = "get"
    /\ queue # <<>>
    /\ \E run_id \in {queue[Len(queue)]} :
           /\ last' = [last EXCEPT
                         !.queue = SubSeq(@, 1, Len(@) - 1),
                         !.runs[run_id].status = "running",
                         !.started = Append(@, run_id),
                         !.history[run_id] = Append(@, "running")]
           /\ pc' = [pc EXCEPT !.worker = "start", !.run_id = run_id]
    /\ UNCHANGED <<store, OPENAI_READY, now, ops>>

\* _worker: run_id = self.queue.get(); run = self.store.get_run(run_id);
\* run.status = "running"; self.store.update_run(run)
WorkerGet ==
    /\ pc.worker = "get"
    /\ queue # <<>>
    /\ \E run_id \in {Head(queue)} :
           IF run_id \notin DOMAIN runs
           THEN /\ last' = [last EXCEPT !.queue = Tail(@)]
                /\ pc' = pc
           ELSE /\ last' = [last EXCEPT
                              !.queue = Tail(@),
                              !.runs[run_id].status = "running",
                              !.started = Append(@, run_id),
                              !.history[run_id] = Append(@, "running")]
                /\ pc' = [pc EXCEPT !.worker = "start", !.run_id = run_id]
    /\ UNCHANGED <<store, OPENAI_READY, now, ops>>

\* _worker: the log is opened and subprocess.Popen starts the command;
\* self.processes[run.id] = proc.  An error of open or Popen ends the
\* worker thread.
WorkerStart ==
    /\ pc.worker = "start"
    /\ \E started_ok \in BOOLEAN :
           IF started_ok
           THEN /\ last' = [last EXCEPT
                              !.processes = [i \in DOMAIN @ \cup {pc.run_id}
                                               |-> IF i = pc.run_id
                                                   THEN "live" ELSE @[i]]]
                /\ pc' = [pc EXCEPT !.worker = "wait"]
           ELSE /\ last' = last
                /\ pc' = [pc EXCEPT !.worker = "dead"]
    /\ UNCHANGED <<store, OPENAI_READY, now, ops>>

\* the status for a return code
StatusOf(return_code) ==
    IF return_code = 0 THEN "success"
    ELSE IF return_code = -15 THEN "stopped"
    ELSE "failed"

\* _worker: return_code = proc.wait(); self.processes.pop(run.id, None);
\* run.return_code = return_code; run.status = ..; update_run(run)
WorkerFinish ==
    /\ pc.worker = "wait"
    /\ \E return_code \in (IF processes[pc.run_id] = "terminated"
                           THEN {-15, 0, 1} ELSE {0, 1}) :
           last' = [last EXCEPT
                      !.processes = [i \in DOMAIN @ \ {pc.run_id} |-> @[i]],
                      !.runs[pc.run_id] =
                          Run(pc.run_id, StatusOf(return_code),
                              <<return_code>>),
                      !.history[pc.run_id] =
                          Append(@, StatusOf(return_code))]
    /\ pc' = [pc EXCEPT !.worker = "get", !.run_id = 0]
    /\ UNCHANGED <<store, OPENAI_READY, now, ops>>

NextRunner ==
    \/ \E t \in Handlers : PostRun(t) \/ Enqueue(t) \/ StopRun(t)
    \/ WorkerGet
    \/ WorkerStart
    \/ WorkerFinish

SpecRunner == InitRunner /\ [][NextRunner]_vars

Finished == {"success", "failed", "stopped"}

====
